---- MODULE Spec2Model ----
(***************************************************************************)
(* A model of the slide renderer of plat-deck (pkg/pipeline/wasm.go):      *)
(* WASMPipeline.RenderSlide / svgslide and the drawing helpers they call.  *)
(*                                                                         *)
(* Numbers.  Go's float64 is modelled by exact rationals [n, d] in lowest  *)
(* terms with d > 0, extended by the IEEE special values +Inf = [1, 0],    *)
(* -Inf = [-1, 0] and NaN = [0, 0].  Binary rounding error and the sign of *)
(* zero are outside the model.                                             *)
(* Strings that the code splits, measures or parses are sequences of       *)
(* one-character strings; strings the code only passes on are strings.     *)
(* A colour token is [name, args]: "red" is [name |-> "red", args |-> <<>>]*)
(* and "hsv(0,100,100)" is [name |-> "hsv", args |-> <<0, 100, 100>>].     *)
(***************************************************************************)
EXTENDS Integers, Sequences, FiniteSets, TLC

VARIABLES
    deck,       \* the decoded deck: [Canvas |-> [Width, Height], Slide |-> Seq(slide)]
    fontmap,    \* WASMPipeline.fontmap: alias -> font family
    pc,         \* position of the running call
    caller,     \* which entry point runs svgslide: "RenderSlide" or "Process"
    d,          \* the deck the running call renders (*deck.Deck)
    n,          \* svgslide's parameter n (0-based slide index)
    slide,      \* svgslide's local copy `slide := d.Slide[n]`
    li,         \* position in svgslide's layers loop (1-based)
    ei,         \* position in the current layer's entry loop (1-based)
    calls,      \* the drawing calls received by the current doc, in order
    err,        \* the error returned by the last call ("" is nil)
    result,     \* Process's *Result
    pi,         \* Process's loop variable i
    fin,        \* inputs of the pure geometry/opacity functions
    fout,       \* their results
    procs,      \* the Process calls running concurrently on one pipeline object
    resolver,   \* an ImportResolver, the files its Loader serves and its Expand calls
    queue,      \* a consumeQueue call: its batch, its position, what each message met
    cache       \* the server's DeckCache and the getOrRenderDeck calls running on it

vars == <<deck, fontmap, pc, caller, d, n, slide, li, ei, calls, err, result, pi,
          fin, fout, procs, resolver, queue, cache>>

----------------------------------------------------------------------------
(* float64 as extended rationals *)

Abs(i) == IF i < 0 THEN -i ELSE i

Sign(i) == IF i < 0 THEN -1 ELSE IF i > 0 THEN 1 ELSE 0

RECURSIVE GCD(_, _)
GCD(a, b) == IF b = 0 THEN a ELSE GCD(b, a % b)

Rat(num, den) ==
    IF den = 0 THEN [n |-> Sign(num), d |-> 0]
    ELSE LET g == GCD(Abs(num), Abs(den))
             s == IF den < 0 THEN -1 ELSE 1
         IN  [n |-> (s * num) \div g, d |-> (s * den) \div g]

R(i) == [n |-> i, d |-> 1]

NaN == [n |-> 0, d |-> 0]
PosInf == [n |-> 1, d |-> 0]
NegInf == [n |-> -1, d |-> 0]

IsNaN(a) == a.d = 0 /\ a.n = 0
IsInf(a) == a.d = 0 /\ a.n # 0
IsFinite(a) == a.d > 0

FNeg(a) == [n |-> -a.n, d |-> a.d]

FAdd(a, b) ==
    IF IsNaN(a) \/ IsNaN(b) THEN NaN
    ELSE IF IsInf(a) /\ IsInf(b) THEN (IF a.n = b.n THEN a ELSE NaN)
    ELSE IF IsInf(a) THEN a
    ELSE IF IsInf(b) THEN b
    ELSE Rat(a.n * b.d + b.n * a.d, a.d * b.d)

FSub(a, b) == FAdd(a, FNeg(b))

FMul(a, b) ==
    IF IsNaN(a) \/ IsNaN(b) THEN NaN
    ELSE IF IsInf(a) \/ IsInf(b)
         THEN (IF a.n = 0 \/ b.n = 0 THEN NaN
               ELSE [n |-> Sign(a.n) * Sign(b.n), d |-> 0])
    ELSE Rat(a.n * b.n, a.d * b.d)

FDiv(a, b) ==
    IF IsNaN(a) \/ IsNaN(b) THEN NaN
    ELSE IF IsInf(a) THEN (IF IsInf(b) THEN NaN
                           ELSE [n |-> a.n * (IF b.n < 0 THEN -1 ELSE 1), d |-> 0])
    ELSE IF IsInf(b) THEN R(0)
    ELSE IF b.n = 0 THEN [n |-> Sign(a.n), d |-> 0]
    ELSE Rat(a.n * b.d, a.d * b.n)

\* a < b, a > b, a == b on float64: every comparison with NaN is false
FLt(a, b) ==
    /\ ~IsNaN(a) /\ ~IsNaN(b)
    /\ IF IsInf(a) \/ IsInf(b)
       THEN (IF IsInf(a) /\ IsInf(b) THEN a.n < b.n
             ELSE IF IsInf(a) THEN a.n < 0 ELSE b.n > 0)
       ELSE a.n * b.d < b.n * a.d

FGt(a, b) == FLt(b, a)

FEq(a, b) == ~IsNaN(a) /\ ~IsNaN(b) /\ a = b

FGe(a, b) == FGt(a, b) \/ FEq(a, b)

FLe(a, b) == FLt(a, b) \/ FEq(a, b)

\* Go's int(f) for a finite f: truncation toward zero
Trunc(a) == IF a.n >= 0 THEN a.n \div a.d ELSE -((-a.n) \div a.d)

\* math.Abs
FAbs(a) == [n |-> Abs(a.n), d |-> a.d]

\* math.Mod(a, m): the result has the sign of a
FMod(a, m) ==
    IF ~IsFinite(a) \/ IsNaN(m) \/ m.n = 0 THEN NaN
    ELSE IF IsInf(m) THEN a
    ELSE FSub(a, FMul(m, R(Trunc(FDiv(a, m)))))

\* what fmt's %.2f prints: the nearest multiple of 1/100, ties to even
Round2(a) ==
    IF ~IsFinite(a) THEN a
    ELSE LET q == (100 * a.n) \div a.d
             r == 100 * a.n - q * a.d
         IN  IF 2 * r < a.d THEN Rat(q, 100)
             ELSE IF 2 * r > a.d THEN Rat(q + 1, 100)
             ELSE IF q % 2 = 0 THEN Rat(q, 100) ELSE Rat(q + 1, 100)

----------------------------------------------------------------------------
(* constants of wasm.go *)

linespacing == Rat(14, 10)
listspacing == R(2)
listwrap == R(95)
defaultColor == [name |-> "rgb", args |-> <<127, 127, 127>>]
NoColor == [name |-> "", args |-> <<>>]
Named(s) == [name |-> s, args |-> <<>>]

----------------------------------------------------------------------------
(* geometry *)

pct(p, m) == FMul(FDiv(p, R(100)), m)

\* math.Cos(radians(deg)) and math.Sin(radians(deg)), for whole quarter turns
QuarterTurns(deg) == (Trunc(deg) \div 90) % 4

CosDeg(deg) == LET q == QuarterTurns(deg)
               IN  IF q = 0 THEN R(1) ELSE IF q = 2 THEN R(-1) ELSE R(0)

SinDeg(deg) == LET q == QuarterTurns(deg)
               IN  IF q = 1 THEN R(1) ELSE IF q = 3 THEN R(-1) ELSE R(0)

polar(x, y, r, angle) ==
    <<FAdd(FMul(r, CosDeg(angle)), x), FAdd(FMul(r, SinDeg(angle)), y)>>

dimen_noflip(w, h, xp, yp, sp) == <<pct(xp, w), pct(yp, h), pct(sp, w)>>

dimen(w, h, xp, yp, sp) == <<pct(xp, w), pct(FSub(R(100), yp), h), pct(sp, w)>>

setop_zero_transparent(v) ==
    IF FLt(v, R(0)) THEN R(0)
    ELSE IF FGt(v, R(0)) THEN FDiv(v, R(100))
    ELSE R(0)

setop(v) ==
    IF FLt(v, R(0)) THEN R(0)
    ELSE IF FGt(v, R(0)) THEN FDiv(v, R(100))
    ELSE IF FEq(v, R(0)) THEN R(1)
    ELSE v

----------------------------------------------------------------------------
(* strings as sequences of one-character strings *)

Digits == <<"0", "1", "2", "3", "4", "5", "6", "7", "8", "9">>

IsDigit(c) == \E k \in 1..10 : Digits[k] = c

DigitVal(c) == (CHOOSE k \in 1..10 : Digits[k] = c) - 1

\* strings.Split(s, sep) for a one-character sep: the fields between separators
RECURSIVE SplitFrom(_, _, _, _)
SplitFrom(s, sep, k, cur) ==
    IF k > Len(s) THEN <<cur>>
    ELSE IF s[k] = sep THEN <<cur>> \o SplitFrom(s, sep, k + 1, <<>>)
    ELSE SplitFrom(s, sep, k + 1, Append(cur, s[k]))

Split(s, sep) == SplitFrom(s, sep, 1, <<>>)

whitespace(r) == r = " " \/ r = "\n" \/ r = "\t"

\* strings.FieldsFunc(s, whitespace): the maximal runs of non-whitespace
RECURSIVE FieldsFrom(_, _, _)
FieldsFrom(s, k, cur) ==
    IF k > Len(s) THEN (IF cur = <<>> THEN <<>> ELSE <<cur>>)
    ELSE IF whitespace(s[k])
         THEN (IF cur = <<>> THEN <<>> ELSE <<cur>>) \o FieldsFrom(s, k + 1, <<>>)
         ELSE FieldsFrom(s, k + 1, Append(cur, s[k]))

Fields(s) == FieldsFrom(s, 1, <<>>)

RECURSIVE DigitsValue(_, _)
DigitsValue(s, acc) ==
    IF s = <<>> THEN acc ELSE DigitsValue(Tail(s), 10 * acc + DigitVal(Head(s)))

\* strconv.ParseFloat(s, 64) on the strings the model feeds it (digits, "-" and
\* other characters): [ok, val]; anything but -?[0-9]+ is a syntax error
ParseFloat(s) ==
    LET neg == s # <<>> /\ Head(s) = "-"
        body == IF neg THEN Tail(s) ELSE s
    IN  IF body # <<>> /\ \A k \in 1..Len(body) : IsDigit(body[k])
        THEN [ok |-> TRUE,
              val |-> R(IF neg THEN -DigitsValue(body, 0) ELSE DigitsValue(body, 0))]
        ELSE [ok |-> FALSE, val |-> R(0)]

\* fmt.Sprintf("%d", i) for i >= 0
RECURSIVE IntToStr(_)
IntToStr(i) ==
    IF i < 10 THEN <<Digits[i + 1]>>
    ELSE Append(IntToStr(i \div 10), Digits[(i % 10) + 1])

RECURSIVE Flatten(_)
Flatten(ss) == IF ss = <<>> THEN <<>> ELSE Head(ss) \o Flatten(Tail(ss))

----------------------------------------------------------------------------
(* colour and opacity *)

fontlookup(fm, s) == IF s \in DOMAIN fm THEN fm[s]
                     ELSE IF "sans" \in DOMAIN fm THEN fm["sans"] ELSE ""

hsv2rgb(h0, s0, v0) ==
    LET s == FDiv(s0, R(100))
        v == FDiv(v0, R(100))
        h == FMod(h0, R(360))
        c == FMul(v, s)
        section == FDiv(h, R(60))
        x == FMul(c, FSub(R(1), FAbs(FSub(FMod(section, R(2)), R(1)))))
        in(lo, hi) == FGt(section, lo) /\ FLe(section, hi)
        rgb == IF FGe(section, R(0)) /\ FLe(section, R(1)) THEN <<c, x, R(0)>>
               ELSE IF in(R(1), R(2)) THEN <<x, c, R(0)>>
               ELSE IF in(R(2), R(3)) THEN <<R(0), c, x>>
               ELSE IF in(R(3), R(4)) THEN <<R(0), x, c>>
               ELSE IF in(R(4), R(5)) THEN <<x, R(0), c>>
               ELSE IF in(R(5), R(6)) THEN <<c, R(0), x>>
               ELSE <<>>
        m == FSub(v, c)
        chan(k) == Trunc(FMul(FAdd(rgb[k], m), R(255)))
    IN  IF FGt(s, R(1)) \/ FGt(v, R(1)) THEN <<0, 0, 0>>
        ELSE IF rgb = <<>> THEN <<0, 0, 0>>
        ELSE <<chan(1), chan(2), chan(3)>>

h2r(color) ==
    LET v == color.args
    IN  [name |-> "rgb",
         args |-> IF Len(v) = 3 THEN hsv2rgb(R(v[1]), R(v[2]), R(v[3]))
                  ELSE <<0, 0, 0>>]

\* "hsv(" prefix, ")" suffix and more than 5 characters: at least one argument
svgcolor(color) ==
    IF color.name = "hsv" /\ Len(color.args) > 0 THEN h2r(color) ELSE color

strokeop(sw, color, opacity) ==
    [strokewidth |-> Round2(sw), stroke |-> svgcolor(color),
     strokeopacity |-> Round2(setop(opacity))]

fillop_raw(color, opacity) ==
    [fill |-> svgcolor(color), fillopacity |-> Round2(opacity)]

fillop(color, opacity) ==
    [fill |-> svgcolor(color), fillopacity |-> Round2(setop(opacity))]

\* "fill:none;" + strokeop(...)
nofill_strokeop(sw, color, opacity) ==
    [fill |-> Named("none")] @@ strokeop(sw, color, opacity)


----------------------------------------------------------------------------
(* drawing helpers: each yields the calls it makes on doc, in order *)

bullet(x, y, size, color) ==
    LET rs == FDiv(size, R(2))
    IN  <<[op |-> "Circle",
           a |-> <<FSub(x, size), FSub(y, FDiv(FMul(rs, R(2)), R(3))), FDiv(rs, R(2))>>,
           st |-> [fill |-> svgcolor(color)]]>>

dorect(x, y, w, h, color, opacity) ==
    <<[op |-> "Rect", a |-> <<x, y, w, h>>, st |-> fillop(color, opacity)]>>

background_opacity1(w, h, color) == dorect(R(0), R(0), w, h, svgcolor(color), R(1))

background(w, h, color) == dorect(R(0), R(0), w, h, svgcolor(color), R(0))

doline(xp1, yp1, xp2, yp2, sw, color, opacity) ==
    <<[op |-> "Line", a |-> <<xp1, yp1, xp2, yp2>>, st |-> strokeop(sw, color, opacity)]>>

doarc(x, y, w, h, a1, a2, sw, color, opacity) ==
    LET s == polar(x, y, w, FNeg(a1))
        e == polar(x, y, h, FNeg(a2))
        large == FGe(FSub(a2, a1), R(180))
    IN  <<[op |-> "Arc", a |-> <<s[1], s[2], w, h, R(0), e[1], e[2]>>,
           large |-> large, sweep |-> FALSE,
           st |-> nofill_strokeop(sw, color, opacity)]>>

docurve(xp1, yp1, xp2, yp2, xp3, yp3, sw, color, opacity) ==
    <<[op |-> "Qbez", a |-> <<xp1, yp1, xp2, yp2, xp3, yp3>>,
       st |-> nofill_strokeop(sw, color, opacity)]>>

doellipse(x, y, w, h, color, opacity) ==
    <<[op |-> "Ellipse", a |-> <<x, y, w, h>>, st |-> fillop(color, opacity)]>>

dopoly_nolencheck(xc, yc, cw, ch, color, opacity) ==
    LET xs == Split(xc, " ")
        ys == Split(yc, " ")
        m == IF Len(xs) < Len(ys) THEN Len(xs) ELSE Len(ys)
        px == [i \in 1..m |-> IF ParseFloat(xs[i]).ok
                               THEN pct(ParseFloat(xs[i]).val, cw) ELSE R(0)]
        py == [i \in 1..m |-> IF ParseFloat(ys[i]).ok
                               THEN pct(FSub(R(100), ParseFloat(ys[i]).val), ch) ELSE R(0)]
    IN  <<[op |-> "Polygon", px |-> px, py |-> py, st |-> fillop(color, opacity)]>>

dopoly(xc, yc, cw, ch, color, opacity) ==
    LET xs == Split(xc, " ")
        ys == Split(yc, " ")
        px == [i \in 1..Len(xs) |-> IF ParseFloat(xs[i]).ok
                                     THEN pct(ParseFloat(xs[i]).val, cw) ELSE R(0)]
        py == [i \in 1..Len(xs) |-> IF ParseFloat(ys[i]).ok
                                     THEN pct(FSub(R(100), ParseFloat(ys[i]).val), ch)
                                     ELSE R(0)]
    IN  IF Len(xs) # Len(ys) THEN <<>>
        ELSE IF Len(xs) < 3 \/ Len(ys) < 3 THEN <<>>
        ELSE <<[op |-> "Polygon", px |-> px, py |-> py, st |-> fillop(color, opacity)]>>

textalign(s) ==
    IF s \in {"center", "middle", "mid", "c"} THEN "middle"
    ELSE IF s \in {"left", "start", "l"} THEN "start"
    ELSE IF s \in {"right", "end", "e"} THEN "end"
    ELSE "start"

showtext(fm, x, y, s, fs, font, color, align) ==
    <<[op |-> "Text", a |-> <<x, y>>, txt |-> s, preserve |-> TRUE,
       st |-> [fill |-> svgcolor(color), fontsize |-> Round2(fs),
               fontfamily |-> fontlookup(fm, font), textanchor |-> textalign(align)]]>>

\* textwrap's loop over words: [out: the Text calls made, yp, line]
RECURSIVE WrapWords(_, _, _, _, _, _, _, _)
WrapWords(words, xp, yp, line, w, x, fs, leading) ==
    IF words = <<>> THEN [out |-> <<>>, yp |-> yp, line |-> line]
    ELSE IF Head(words) = <<"\\", "n">>
         THEN WrapWords(Tail(words), xp, FAdd(yp, leading), line, w, x, fs, leading)
    ELSE LET line2 == line \o Head(words) \o <<" ">>
             over == FGt(FMul(FMul(fs, R(Len(line2))), Rat(65, 100)), FAdd(w, x))
         IN  IF over
             THEN LET rest == WrapWords(Tail(words), xp, FAdd(yp, leading), <<>>,
                                        w, x, fs, leading)
                  IN  [rest EXCEPT !.out =
                          <<[op |-> "Text", a |-> <<xp, yp>>, txt |-> line2,
                             preserve |-> FALSE]>> \o rest.out]
             ELSE WrapWords(Tail(words), xp, yp, line2, w, x, fs, leading)

\* fs * len(line) > w + x: the comparison without its factor 0.65
textwrap_nofactor(fm, x, y, w, fs, leading, s, font, color, opacity) ==
    LET r == WrapWords(Fields(s), x, y, <<>>, FMul(Rat(65, 100), w), FMul(Rat(65, 100), x),
                       fs, leading)
    IN  <<[op |-> "Gstyle",
           st |-> [fillopacity |-> Round2(setop(opacity)), fill |-> svgcolor(color),
                   fontfamily |-> fontlookup(fm, font), fontsize |-> Round2(fs)]]>>
        \o r.out
        \o (IF Len(r.line) > 0
            THEN <<[op |-> "Text", a |-> <<x, r.yp>>, txt |-> r.line, preserve |-> FALSE]>>
            ELSE <<>>)
        \o <<[op |-> "Gend"]>>

\* without the closing doc.Gend()
textwrap_unclosed(fm, x, y, w, fs, leading, s, font, color, opacity) ==
    LET r == WrapWords(Fields(s), x, y, <<>>, w, x, fs, leading)
    IN  <<[op |-> "Gstyle",
           st |-> [fillopacity |-> Round2(setop(opacity)), fill |-> svgcolor(color),
                   fontfamily |-> fontlookup(fm, font), fontsize |-> Round2(fs)]]>>
        \o r.out
        \o (IF Len(r.line) > 0
            THEN <<[op |-> "Text", a |-> <<x, r.yp>>, txt |-> r.line, preserve |-> FALSE]>>
            ELSE <<>>)

textwrap(fm, x, y, w, fs, leading, s, font, color, opacity) ==
    LET r == WrapWords(Fields(s), x, y, <<>>, w, x, fs, leading)
    IN  <<[op |-> "Gstyle",
           st |-> [fillopacity |-> Round2(setop(opacity)), fill |-> svgcolor(color),
                   fontfamily |-> fontlookup(fm, font), fontsize |-> Round2(fs)]]>>
        \o r.out
        \o (IF Len(r.line) > 0
            THEN <<[op |-> "Text", a |-> <<x, r.yp>>, txt |-> r.line, preserve |-> FALSE]>>
            ELSE <<>>)
        \o <<[op |-> "Gend"]>>

\* `if rotation != 0` in place of `if rotation > 0`
dotext_anyrotation(fm, cw, x, y, fs, wp, rotation, ls0, tdata, font0, align, ttype, color, opacity) ==
    LET ls == FMul(ls0, fs)
        td == Split(tdata, "\n")
        font == IF ttype = "code" THEN "mono" ELSE font0
        codebg == IF ttype = "code"
                  THEN dorect(FSub(x, fs), FSub(y, fs), FSub(FSub(cw, x), R(20)),
                              FMul(R(Len(td)), ls), [name |-> "rgb", args |-> <<240, 240, 240>>],
                              opacity)
                  ELSE <<>>
        tw == IF FEq(wp, R(0)) THEN FDiv(cw, R(2)) ELSE FMul(cw, FDiv(wp, R(100)))
        body == IF ttype = "block"
                THEN textwrap(fm, x, y, tw, fs, ls, tdata, font, color, opacity)
                ELSE Flatten([k \in 1..Len(td) |->
                        showtext(fm, x, FAdd(y, FMul(R(k - 1), ls)), td[k], fs, font,
                                 color, align)])
    IN  (IF ~FEq(rotation, R(0))
         THEN <<[op |-> "RotateTranslate", a |-> <<x, y, rotation>>]>> ELSE <<>>)
        \o codebg \o body
        \o (IF ~FEq(rotation, R(0)) THEN <<[op |-> "Gend"]>> ELSE <<>>)

\* without `font = "mono"` in code mode
dotext_keepfont(fm, cw, x, y, fs, wp, rotation, ls0, tdata, font0, align, ttype, color, opacity) ==
    LET ls == FMul(ls0, fs)
        td == Split(tdata, "\n")
        font == font0
        codebg == IF ttype = "code"
                  THEN dorect(FSub(x, fs), FSub(y, fs), FSub(FSub(cw, x), R(20)),
                              FMul(R(Len(td)), ls), [name |-> "rgb", args |-> <<240, 240, 240>>],
                              opacity)
                  ELSE <<>>
        tw == IF FEq(wp, R(0)) THEN FDiv(cw, R(2)) ELSE FMul(cw, FDiv(wp, R(100)))
        body == IF ttype = "block"
                THEN textwrap(fm, x, y, tw, fs, ls, tdata, font, color, opacity)
                ELSE Flatten([k \in 1..Len(td) |->
                        showtext(fm, x, FAdd(y, FMul(R(k - 1), ls)), td[k], fs, font,
                                 color, align)])
    IN  (IF FGt(rotation, R(0))
         THEN <<[op |-> "RotateTranslate", a |-> <<x, y, rotation>>]>> ELSE <<>>)
        \o codebg \o body
        \o (IF FGt(rotation, R(0)) THEN <<[op |-> "Gend"]>> ELSE <<>>)

dotext(fm, cw, x, y, fs, wp, rotation, ls0, tdata, font0, align, ttype, color, opacity) ==
    LET ls == FMul(ls0, fs)
        td == Split(tdata, "\n")
        font == IF ttype = "code" THEN "mono" ELSE font0
        codebg == IF ttype = "code"
                  THEN dorect(FSub(x, fs), FSub(y, fs), FSub(FSub(cw, x), R(20)),
                              FMul(R(Len(td)), ls), [name |-> "rgb", args |-> <<240, 240, 240>>],
                              opacity)
                  ELSE <<>>
        tw == IF FEq(wp, R(0)) THEN FDiv(cw, R(2)) ELSE FMul(cw, FDiv(wp, R(100)))
        body == IF ttype = "block"
                THEN textwrap(fm, x, y, tw, fs, ls, tdata, font, color, opacity)
                ELSE Flatten([k \in 1..Len(td) |->
                        showtext(fm, x, FAdd(y, FMul(R(k - 1), ls)), td[k], fs, font,
                                 color, align)])
    IN  (IF FGt(rotation, R(0))
         THEN <<[op |-> "RotateTranslate", a |-> <<x, y, rotation>>]>> ELSE <<>>)
        \o codebg \o body
        \o (IF FGt(rotation, R(0)) THEN <<[op |-> "Gend"]>> ELSE <<>>)

\* the style of one list item: "fill-opacity:%.2f;" and what the item sets
lifmt(tl, align) ==
    [fillopacity |-> Round2(setop(tl.Opacity))]
    @@ (IF tl.Color # NoColor THEN [fill |-> tl.Color] ELSE <<>>)
    @@ (IF tl.Font # "" THEN [fontfamily |-> tl.Font] ELSE <<>>)
    @@ (IF align = "center" \/ align = "c" THEN [textanchor |-> "middle"] ELSE <<>>)

\* the prefix counts from 0: fmt.Sprintf("%d. ", i)
dolist_zerobased(fm, x0, y, fs, rotation, lwidth, spacing, tlist, font0, ltype, align, color, opacity) ==
    LET font == IF font0 = "" THEN "sans" ELSE font0
        x == IF ltype = "bullet" THEN FAdd(x0, fs) ELSE x0
        ls == FMul(spacing, fs)
        yk(k) == FAdd(y, FMul(R(k - 1), ls))
        item(k) ==
            (IF ltype = "bullet" THEN bullet(x, yk(k), fs, color) ELSE <<>>)
            \o <<[op |-> "Text", a |-> <<x, yk(k)>>,
                  txt |-> IF ltype = "number"
                          THEN IntToStr(k - 1) \o <<".", " ">> \o tlist[k].ListText
                          ELSE tlist[k].ListText,
                  preserve |-> TRUE, st |-> lifmt(tlist[k], align)]>>
    IN  <<[op |-> "Gstyle",
           st |-> [fillopacity |-> Round2(setop(opacity)), fill |-> svgcolor(color),
                   fontfamily |-> fontlookup(fm, font), fontsize |-> Round2(fs)]]>>
        \o Flatten([k \in 1..Len(tlist) |-> item(k)])
        \o <<[op |-> "Gend"]>>

dolist(fm, x0, y, fs, rotation, lwidth, spacing, tlist, font0, ltype, align, color, opacity) ==
    LET font == IF font0 = "" THEN "sans" ELSE font0
        x == IF ltype = "bullet" THEN FAdd(x0, fs) ELSE x0
        ls == FMul(spacing, fs)
        yk(k) == FAdd(y, FMul(R(k - 1), ls))
        item(k) ==
            (IF ltype = "bullet" THEN bullet(x, yk(k), fs, color) ELSE <<>>)
            \o <<[op |-> "Text", a |-> <<x, yk(k)>>,
                  txt |-> IF ltype = "number"
                          THEN IntToStr(k) \o <<".", " ">> \o tlist[k].ListText
                          ELSE tlist[k].ListText,
                  preserve |-> TRUE, st |-> lifmt(tlist[k], align)]>>
    IN  <<[op |-> "Gstyle",
           st |-> [fillopacity |-> Round2(setop(opacity)), fill |-> svgcolor(color),
                   fontfamily |-> fontlookup(fm, font), fontsize |-> Round2(fs)]]>>
        \o Flatten([k \in 1..Len(tlist) |-> item(k)])
        \o <<[op |-> "Gend"]>>

\* deck.Pwidth of the deck library: a percentage of the canvas, or the default
Pwidth(wp, cw, defval) == IF FEq(wp, R(0)) THEN defval ELSE FMul(FDiv(wp, R(100)), cw)


----------------------------------------------------------------------------
(* svgslide: what each loop body draws for one entry *)

layers_polyfirst ==
    <<"poly", "image", "rect", "ellipse", "curve", "arc", "line", "text", "list">>

layers == <<"image", "rect", "ellipse", "curve", "arc", "line", "poly", "text", "list">>

\* int(f); `ub` is what the conversion yields when f is not finite, which Go
\* leaves to the implementation
ToInt(f, ub) == IF IsFinite(f) THEN Trunc(f) ELSE ub

\* the values an implementation gives int(+Inf), int(-Inf), int(NaN); the two
\* extremes stand for the least and greatest int
UndefInt == {-2147483647, 0, 2147483647}

ImageSize_alwaysfit(im, cw) ==
    LET scaled == FGt(im.Scale, R(0))
        f == FDiv(im.Scale, R(100))
        iw1 == IF scaled THEN FMul(R(im.Width), f) ELSE R(im.Width)
        ih1 == IF scaled THEN FMul(R(im.Height), f) ELSE R(im.Height)
        auto == im.Autoscale = "on"
    IN  [iw |-> IF auto THEN cw ELSE iw1,
         ih |-> IF auto THEN FMul(FDiv(cw, iw1), ih1) ELSE ih1]

\* lines 452-461: the size of an image after scale and autoscale
ImageSize(im, cw) ==
    LET scaled == FGt(im.Scale, R(0))
        f == FDiv(im.Scale, R(100))
        iw1 == IF scaled THEN FMul(R(im.Width), f) ELSE R(im.Width)
        ih1 == IF scaled THEN FMul(R(im.Height), f) ELSE R(im.Height)
        auto == im.Autoscale = "on" /\ FLt(iw1, cw)
    IN  [iw |-> IF auto THEN cw ELSE iw1,
         ih |-> IF auto THEN FMul(FDiv(cw, iw1), ih1) ELSE ih1]

DrawImageEntry(fm, fg, cw, ch, im, ub) ==
    LET p == dimen(cw, ch, im.Xp, im.Yp, R(0))
        x == p[1]
        y == p[2]
        sz == ImageSize(im, cw)
        midx == FDiv(sz.iw, R(2))
        midy == FDiv(sz.ih, R(2))
        capsize == Pwidth(im.Sp, cw, pct(R(2), cw))
    IN  <<[op |-> "Image", a |-> <<FSub(x, midx), FSub(y, midy)>>,
           w |-> ToInt(sz.iw, ub), h |-> ToInt(sz.ih, ub), name |-> im.Name]>>
        \o (IF Len(im.Caption) > 0
            THEN showtext(fm, x, FAdd(FAdd(y, midy), FMul(capsize, R(2))), im.Caption,
                          capsize,
                          IF im.Font = "" THEN "sans" ELSE im.Font,
                          IF im.Color = NoColor THEN fg ELSE im.Color,
                          IF im.Align = "" THEN "center" ELSE im.Align)
            ELSE <<>>)

DrawRectEntry_corner(cw, ch, rect) ==
    LET p == dimen(cw, ch, rect.Xp, rect.Yp, R(0))
        w == pct(rect.Wp, cw)
        h == IF FEq(rect.Hr, R(0)) THEN pct(rect.Hp, ch) ELSE pct(rect.Hr, w)
    IN  dorect(p[1], p[2], w, h,
               IF rect.Color = NoColor THEN defaultColor ELSE rect.Color, rect.Opacity)

DrawRectEntry(cw, ch, rect) ==
    LET p == dimen(cw, ch, rect.Xp, rect.Yp, R(0))
        w == pct(rect.Wp, cw)
        h == IF FEq(rect.Hr, R(0)) THEN pct(rect.Hp, ch) ELSE pct(rect.Hr, w)
    IN  dorect(FSub(p[1], FDiv(w, R(2))), FSub(p[2], FDiv(h, R(2))), w, h,
               IF rect.Color = NoColor THEN defaultColor ELSE rect.Color, rect.Opacity)

DrawEllipseEntry_hponly(cw, ch, ellipse) ==
    LET p == dimen(cw, ch, ellipse.Xp, ellipse.Yp, R(0))
        w == pct(ellipse.Wp, cw)
        h == pct(ellipse.Hp, ch)
    IN  doellipse(p[1], p[2], FDiv(w, R(2)), FDiv(h, R(2)),
                  IF ellipse.Color = NoColor THEN defaultColor ELSE ellipse.Color,
                  ellipse.Opacity)

DrawEllipseEntry(cw, ch, ellipse) ==
    LET p == dimen(cw, ch, ellipse.Xp, ellipse.Yp, R(0))
        w == pct(ellipse.Wp, cw)
        h == IF FEq(ellipse.Hr, R(0)) THEN pct(ellipse.Hp, ch) ELSE pct(ellipse.Hr, w)
    IN  doellipse(p[1], p[2], FDiv(w, R(2)), FDiv(h, R(2)),
                  IF ellipse.Color = NoColor THEN defaultColor ELSE ellipse.Color,
                  ellipse.Opacity)

StrokeWidth_nodefault(sw) == sw

\* `if sw == 0 { sw = 2.0 }`
StrokeWidth(sw) == IF FEq(sw, R(0)) THEN R(2) ELSE sw

DrawCurveEntry(cw, ch, curve) ==
    LET p1 == dimen(cw, ch, curve.Xp1, curve.Yp1, curve.Sp)
        p2 == dimen(cw, ch, curve.Xp2, curve.Yp2, R(0))
        p3 == dimen(cw, ch, curve.Xp3, curve.Yp3, R(0))
    IN  docurve(p1[1], p1[2], p2[1], p2[2], p3[1], p3[2], StrokeWidth(p1[3]),
                IF curve.Color = NoColor THEN defaultColor ELSE curve.Color,
                curve.Opacity)

DrawArcEntry(cw, ch, arc) ==
    LET p == dimen(cw, ch, arc.Xp, arc.Yp, arc.Sp)
        w == pct(arc.Wp, cw)
        h == pct(arc.Hp, cw)
    IN  doarc(p[1], p[2], FDiv(w, R(2)), FDiv(h, R(2)), arc.A1, arc.A2,
              StrokeWidth(p[3]),
              IF arc.Color = NoColor THEN defaultColor ELSE arc.Color, arc.Opacity)

DrawLineEntry(cw, ch, line) ==
    LET p1 == dimen(cw, ch, line.Xp1, line.Yp1, line.Sp)
        p2 == dimen(cw, ch, line.Xp2, line.Yp2, R(0))
    IN  doline(p1[1], p1[2], p2[1], p2[2], StrokeWidth(p1[3]),
               IF line.Color = NoColor THEN defaultColor ELSE line.Color, line.Opacity)

DrawPolyEntry(cw, ch, poly) ==
    dopoly(poly.XC, poly.YC, cw, ch,
           IF poly.Color = NoColor THEN defaultColor ELSE poly.Color, poly.Opacity)

DrawTextEntry_gray(fm, fg, cw, ch, t) ==
    LET p == dimen(cw, ch, t.Xp, t.Yp, t.Sp)
    IN  dotext(fm, cw, p[1], p[2], p[3], t.Wp, t.Rotation,
               IF FEq(t.Lp, R(0)) THEN linespacing ELSE t.Lp,
               IF t.File # <<>> THEN t.File ELSE t.Tdata,
               IF t.Font = "" THEN "sans" ELSE t.Font,
               t.Align, t.Type,
               IF t.Color = NoColor THEN defaultColor ELSE t.Color, t.Opacity)

\* without `if t.Lp == 0 { t.Lp = linespacing }`
DrawTextEntry_nospacing(fm, fg, cw, ch, t) ==
    LET p == dimen(cw, ch, t.Xp, t.Yp, t.Sp)
    IN  dotext(fm, cw, p[1], p[2], p[3], t.Wp, t.Rotation, t.Lp,
               IF t.File # <<>> THEN t.File ELSE t.Tdata,
               IF t.Font = "" THEN "sans" ELSE t.Font,
               t.Align, t.Type,
               IF t.Color = NoColor THEN fg ELSE t.Color, t.Opacity)

DrawTextEntry(fm, fg, cw, ch, t) ==
    LET p == dimen(cw, ch, t.Xp, t.Yp, t.Sp)
    IN  dotext(fm, cw, p[1], p[2], p[3], t.Wp, t.Rotation,
               IF FEq(t.Lp, R(0)) THEN linespacing ELSE t.Lp,
               IF t.File # <<>> THEN t.File ELSE t.Tdata,
               IF t.Font = "" THEN "sans" ELSE t.Font,
               t.Align, t.Type,
               IF t.Color = NoColor THEN fg ELSE t.Color, t.Opacity)

\* the call passes l.Wp as rotation and l.Rotation as lwidth
DrawListEntry(fm, fg, cw, ch, l) ==
    LET p == dimen(cw, ch, l.Xp, l.Yp, l.Sp)
    IN  dolist(fm, p[1], p[2], p[3],
               IF FEq(l.Wp, R(0)) THEN listwrap ELSE l.Wp, l.Rotation,
               IF FEq(l.Lp, R(0)) THEN listspacing ELSE l.Lp,
               l.Li, l.Font, l.Type, l.Align,
               IF l.Color = NoColor THEN fg ELSE l.Color, l.Opacity)

\* the entries of a slide that the loop of layer `layer` ranges over
LayerEntries(sl, layer) ==
    CASE layer = "image" -> sl.Image
      [] layer = "rect" -> sl.Rect
      [] layer = "ellipse" -> sl.Ellipse
      [] layer = "curve" -> sl.Curve
      [] layer = "arc" -> sl.Arc
      [] layer = "line" -> sl.Line
      [] layer = "poly" -> sl.Polygon
      [] layer = "text" -> sl.Text
      [] layer = "list" -> sl.List

Entry_reversed(sl, layer, k) ==
    LayerEntries(sl, layer)[Len(LayerEntries(sl, layer)) + 1 - k]

\* `for _, x := range` over a layer's collection: the entry at position k
Entry(sl, layer, k) == LayerEntries(sl, layer)[k]

\* the calls of a step, marked with the part of svgslide that made them:
\* its layer and the position of its entry in the layer's collection
Tag(cs, layer, idx) ==
    [k \in 1..Len(cs) |-> cs[k] @@ [layer |-> layer, idx |-> idx]]


----------------------------------------------------------------------------
(* the decks the model renders *)

\* bounds
MaxEntries == 2
MaxDeckSlides == 2

Red == Named("red")
Hsv(h, sa, v) == [name |-> "hsv", args |-> <<h, sa, v>>]

Dim(xp, yp, wp, hp, hr, color, opacity) ==
    [Xp |-> R(xp), Yp |-> R(yp), Wp |-> R(wp), Hp |-> R(hp), Hr |-> R(hr),
     Color |-> color, Opacity |-> opacity]

RectCore ==
    { Dim(50, 50, 20, 10, 0, NoColor, R(0)),
      Dim(25, 75, 40, 10, 50, Red, Rat(333, 10)) }

RectPool ==
    RectCore \cup
    { Dim(10, 10, 5, 5, 0, Hsv(120, 100, 100), R(-5)) }

EllipseCore == { Dim(50, 50, 20, 10, 0, NoColor, R(50)) }

EllipsePool == EllipseCore \cup { Dim(30, 60, 10, 40, 25, Named("blue"), R(0)) }

CurveCore ==
    { [Xp1 |-> R(10), Yp1 |-> R(10), Xp2 |-> R(50), Yp2 |-> R(90), Xp3 |-> R(90),
       Yp3 |-> R(10), Sp |-> R(0), Color |-> NoColor, Opacity |-> R(0)] }

CurvePool ==
    CurveCore \cup
    { [Xp1 |-> R(20), Yp1 |-> R(30), Xp2 |-> R(40), Yp2 |-> R(50), Xp3 |-> R(60),
       Yp3 |-> R(30), Sp |-> R(1), Color |-> Red, Opacity |-> R(150)] }

ArcCore ==
    { [Xp |-> R(50), Yp |-> R(50), Wp |-> R(20), Hp |-> R(10), A1 |-> R(0),
       A2 |-> R(180), Sp |-> R(0), Color |-> NoColor, Opacity |-> R(0)] }

ArcPool ==
    ArcCore \cup
    { [Xp |-> R(40), Yp |-> R(20), Wp |-> R(10), Hp |-> R(10), A1 |-> R(90),
       A2 |-> R(180), Sp |-> Rat(1, 2), Color |-> Red, Opacity |-> R(20)] }

LineCore ==
    { [Xp1 |-> R(10), Yp1 |-> R(20), Xp2 |-> R(90), Yp2 |-> R(20), Sp |-> R(0),
       Color |-> NoColor, Opacity |-> R(0)] }

LinePool ==
    LineCore \cup
    { [Xp1 |-> R(0), Yp1 |-> R(0), Xp2 |-> R(100), Yp2 |-> R(100), Sp |-> Rat(1, 5),
       Color |-> Named("green"), Opacity |-> R(-1)],
      [Xp1 |-> R(0), Yp1 |-> R(50), Xp2 |-> R(100), Yp2 |-> R(50), Sp |-> Rat(1, 10000),
       Color |-> NoColor, Opacity |-> R(0)] }

PolygonCore ==
    { [XC |-> <<"1", "0", " ", "5", "0", " ", "9", "0">>,
       YC |-> <<"1", "0", " ", "9", "0", " ", "1", "0">>,
       Color |-> NoColor, Opacity |-> R(0)],
      [XC |-> <<"1", "0", " ", "5", "0", " ", "9", "0">>,
       YC |-> <<"1", "0", " ", "9", "0">>,
       Color |-> Red, Opacity |-> R(50)] }

PolygonPool ==
    PolygonCore \cup
    { [XC |-> <<"1", "0", " ", "5", "0">>,
       YC |-> <<"1", "0", " ", "5", "0">>,
       Color |-> Red, Opacity |-> R(50)],
      [XC |-> <<"x", " ", "5", "0", " ", "9", "0", " ", "-", "5">>,
       YC |-> <<"5", " ", " ", "9", "0", " ", "2", "0">>,
       Color |-> Named("blue"), Opacity |-> Rat(1, 4)] }

Txt(xp, yp, sp, wp, rot, lp, tdata, file, font, align, type, color, opacity) ==
    [Xp |-> R(xp), Yp |-> R(yp), Sp |-> sp, Wp |-> R(wp), Rotation |-> R(rot),
     Lp |-> lp, Tdata |-> tdata, File |-> file, Font |-> font, Align |-> align,
     Type |-> type, Color |-> color, Opacity |-> opacity]

TextCore ==
    { Txt(10, 90, R(2), 0, 0, R(0), <<"a", "\n", "b">>, <<>>, "", "", "", NoColor, R(0)) }

TextPool ==
    TextCore \cup
    { Txt(20, 80, R(3), 0, 90, R(2), <<"x", "=", "1", "\n", "y">>, <<>>, "serif", "c",
          "code", Red, R(40)),
      Txt(5, 50, R(5), 0, 0, R(0),
          <<"a", "a", " ", "b", "b", "b", " ", "\\", "n", " ", "c", "\n", "d", "d">>,
          <<>>, "fancy", "", "block", NoColor, R(0)),
      Txt(10, 50, R(10), 0, 0, R(0),
          <<"a", "a", " ", "b", "b", "b", " ", "c", "c", "c", " ", "d", "d", " ", "e">>,
          <<>>, "", "", "block", NoColor, R(0)),
      Txt(10, 50, R(10), 30, 0, R(0),
          <<"a", "a", " ", "b", "b", "b", " ", "\\", "n", " ", "c", "\n", "d", "d">>,
          <<>>, "serif", "", "block", Red, R(0)),
      Txt(30, 30, R(4), 0, -45, Rat(3, 2), <<"u", "p", "\n", "d", "n", "\n", "z">>, <<>>, "mono", "e",
          "", Named("blue"), R(20)),
      Txt(40, 60, R(2), 0, 0, R(0), <<"g", "o", "\n", "{", "}">>, <<>>, "", "", "code",
          NoColor, R(0)),
      Txt(50, 50, R(2), 40, 15, R(0), <<"h", "i", " ", "y", "o">>, <<>>, "", "", "block",
          NoColor, R(70)) }

Item(text, color, font, opacity) ==
    [ListText |-> text, Color |-> color, Font |-> font, Opacity |-> opacity]

ListCore ==
    { [Xp |-> R(10), Yp |-> R(70), Sp |-> R(3), Wp |-> R(0), Rotation |-> R(0),
       Lp |-> R(0), Li |-> <<Item(<<"o", "n", "e">>, NoColor, "", R(0)),
                            Item(<<"t", "w", "o">>, Red, "mono", R(50))>>,
       Font |-> "", Type |-> "bullet", Align |-> "", Color |-> NoColor,
       Opacity |-> R(30)] }

ListPool ==
    ListCore \cup
    { [Xp |-> R(50), Yp |-> R(40), Sp |-> R(2), Wp |-> R(50), Rotation |-> R(0),
       Lp |-> Rat(3, 2), Li |-> <<Item(<<"a">>, NoColor, "", R(0))>>,
       Font |-> "serif", Type |-> "number", Align |-> "center",
       Color |-> Named("blue"), Opacity |-> R(0)],
      [Xp |-> R(20), Yp |-> R(80), Sp |-> R(4), Wp |-> R(0), Rotation |-> R(30),
       Lp |-> R(0), Li |-> <<Item(<<"x">>, NoColor, "", R(0)),
                            Item(<<"y", "y">>, Named("green"), "", R(0)),
                            Item(<<"z">>, NoColor, "serif", R(80))>>,
       Font |-> "", Type |-> "number", Align |-> "", Color |-> Red, Opacity |-> R(0)],
      [Xp |-> R(60), Yp |-> R(20), Sp |-> R(1), Wp |-> R(40), Rotation |-> R(0),
       Lp |-> R(3), Li |-> <<Item(<<"p">>, NoColor, "", R(0)),
                            Item(<<"q">>, NoColor, "", R(10))>>,
       Font |-> "mono", Type |-> "", Align |-> "c", Color |-> NoColor, Opacity |-> R(60)] }

Img(xp, yp, sp, width, height, scale, autoscale, caption, color) ==
    [Xp |-> R(xp), Yp |-> R(yp), Sp |-> R(sp), Width |-> width, Height |-> height,
     Scale |-> R(scale), Autoscale |-> autoscale, Name |-> "pic.png",
     Caption |-> caption, Font |-> "", Color |-> color, Align |-> ""]

ImageCore == { Img(50, 50, 0, 15, 15, 50, "", <<"c", "a", "p">>, NoColor) }

ImagePool ==
    ImageCore \cup
    { Img(50, 50, 0, 300, 200, 0, "on", <<>>, NoColor),
      Img(25, 25, 3, 2400, 100, 0, "on", <<"c">>, Red),
      Img(50, 50, 0, 0, 100, 0, "on", <<>>, NoColor),
      Img(50, 50, 0, 640, 480, 0, "off", <<>>, NoColor) }

LayerNames ==
    {"image", "rect", "ellipse", "curve", "arc", "line", "poly", "text", "list"}

\* an entry together with the collection it belongs to
In(c, es) == {[cat |-> c, e |-> e] : e \in es}

Tagged ==
    In("image", ImagePool) \cup In("rect", RectPool) \cup In("ellipse", EllipsePool)
    \cup In("curve", CurvePool) \cup In("arc", ArcPool) \cup In("line", LinePool)
    \cup In("poly", PolygonPool) \cup In("text", TextPool) \cup In("list", ListPool)

TaggedCore ==
    In("image", ImageCore) \cup In("rect", RectCore) \cup In("ellipse", EllipseCore)
    \cup In("curve", CurveCore) \cup In("arc", ArcCore) \cup In("line", LineCore)
    \cup In("poly", PolygonCore) \cup In("text", TextCore) \cup In("list", ListCore)

RECURSIVE OfCat(_, _)
OfCat(es, c) ==
    IF es = <<>> THEN <<>>
    ELSE IF Head(es).cat = c THEN <<Head(es).e>> \o OfCat(Tail(es), c)
    ELSE OfCat(Tail(es), c)

\* background, gradient pair and foreground of a slide
EmptyHeader ==
    [Bg |-> NoColor, Gradcolor1 |-> NoColor, Gradcolor2 |-> NoColor, Fg |-> NoColor]

FullHeader ==
    [Bg |-> Hsv(0, 100, 100), Gradcolor1 |-> Red, Gradcolor2 |-> Named("blue"),
     Fg |-> Named("navy")]

Headers ==
    { EmptyHeader, FullHeader,
      [Bg |-> Named("white"), Gradcolor1 |-> NoColor, Gradcolor2 |-> NoColor,
       Fg |-> NoColor],
      [Bg |-> NoColor, Gradcolor1 |-> Red, Gradcolor2 |-> Named("blue"), Fg |-> NoColor],
      [Bg |-> Named("white"), Gradcolor1 |-> Red, Gradcolor2 |-> NoColor,
       Fg |-> NoColor],
      [Bg |-> NoColor, Gradcolor1 |-> NoColor, Gradcolor2 |-> Named("blue"),
       Fg |-> Named("navy")] }

MkSlide(hd, es) ==
    hd @@ [Image |-> OfCat(es, "image"), Rect |-> OfCat(es, "rect"),
           Ellipse |-> OfCat(es, "ellipse"), Curve |-> OfCat(es, "curve"),
           Arc |-> OfCat(es, "arc"), Line |-> OfCat(es, "line"),
           Polygon |-> OfCat(es, "poly"), Text |-> OfCat(es, "text"),
           List |-> OfCat(es, "list")]

\* slides with at most one entry: every header, every entry of the pools
SmallSlides == {MkSlide(hd, es) : hd \in Headers, es \in {<<>>} \cup {<<t>> : t \in Tagged}}

\* slides with 2..MaxEntries entries
LargeSlides ==
    {MkSlide(hd, es) : hd \in {EmptyHeader, FullHeader},
                       es \in UNION {[1..k -> TaggedCore] : k \in 2..MaxEntries}}

\* slides of the decks that hold several
FewSlides == {MkSlide(hd, <<>>) : hd \in {EmptyHeader, FullHeader}}

Canvas1000 == [Width |-> 1000, Height |-> 1000]
Canvas0 == [Width |-> 0, Height |-> 0]

Decks ==
    {[Canvas |-> c, Slide |-> <<sl>>] : c \in {Canvas1000, Canvas0}, sl \in SmallSlides}
    \cup {[Canvas |-> Canvas1000, Slide |-> <<sl>>] : sl \in LargeSlides}
    \cup {[Canvas |-> Canvas1000, Slide |-> ss] :
            ss \in UNION {[1..k -> FewSlides] : k \in {0} \cup (2..MaxDeckSlides)}}

----------------------------------------------------------------------------
(* the pipeline object and its entry points *)

\* NewWASMPipeline's defaults
DefaultWidth == 1920
DefaultHeight == 1080

NoFonts == [x \in {} |-> ""]

\* Process, lines 76-78, with the fonts NewWASMPipeline sets
FontInit ==
    [sans |-> "Helvetica, Arial, sans-serif", serif |-> "Georgia, Times, serif",
     mono |-> "Monaco, Consolas, monospace"]

parseDeck(dk) ==
    [dk EXCEPT !.Canvas.Width = IF @ = 0 THEN DefaultWidth ELSE @,
               !.Canvas.Height = IF @ = 0 THEN DefaultHeight ELSE @]

NoDeck == [Canvas |-> [Width |-> 0, Height |-> 0], Slide |-> <<>>]
NoSlide == MkSlide(EmptyHeader, <<>>)
NoResult == [Slides |-> <<>>, SlideCount |-> 0, Format |-> ""]

cw == R(d.Canvas.Width)
ch == R(d.Canvas.Height)

Init ==
    /\ deck \in Decks
    /\ fontmap = NoFonts
    /\ pc = "idle"
    /\ caller = ""
    /\ d = NoDeck
    /\ n = 0
    /\ slide = NoSlide
    /\ li = 1
    /\ ei = 1
    /\ calls = <<>>
    /\ err = ""
    /\ result = NoResult
    /\ pi = 0
    /\ fin = <<>>
    /\ fout = <<>>
    /\ procs = <<>>
    /\ resolver = <<>>
    /\ queue = <<>>
    /\ cache = <<>>

\* the locals of svgslide, gone when it returns
DropLocals ==
    /\ slide' = NoSlide
    /\ li' = 1
    /\ ei' = 1

OutOfRange_offbyone(slideIndex, len) == slideIndex < 0 \/ slideIndex > len

\* line 605
OutOfRange(slideIndex, len) == slideIndex < 0 \/ slideIndex >= len

\* caller, d, n and pi keep the last call's values after it has returned
RenderSlide(slideIndex) ==
    /\ pc = "idle"
    /\ caller' = "RenderSlide"
    /\ d' = deck
    /\ n' = slideIndex
    /\ calls' = <<>>
    /\ result' = NoResult
    /\ pi' = 0
    /\ IF OutOfRange(slideIndex, Len(deck.Slide))
       THEN /\ err' = "slide index out of range"
            /\ pc' = "idle"
       ELSE /\ err' = ""
            /\ pc' = "svgslide"
    /\ UNCHANGED <<deck, fontmap, slide, li, ei, fin, fout, procs, resolver, queue, cache>>

Unsupported_pdfonly(format) == format = "pdf"

\* line 71: format != FormatSVG
Unsupported(format) == format # "svg"

\* Process up to its loop; `parse` is how decksh.Process and xml.Unmarshal end
Process(format, parse) ==
    /\ pc = "idle"
    /\ caller' = "Process"
    /\ calls' = <<>>
    /\ n' = 0
    /\ pi' = 0
    /\ IF Unsupported(format)
       THEN /\ err' = "unsupported format"
            /\ result' = NoResult
            /\ d' = NoDeck
            /\ pc' = "idle"
            /\ UNCHANGED fontmap
       ELSE /\ fontmap' = FontInit
            /\ IF parse # "ok"
               THEN /\ err' = parse
                    /\ result' = NoResult
                    /\ d' = NoDeck
                    /\ pc' = "idle"
               ELSE /\ err' = ""
                    /\ d' = parseDeck(deck)
                    /\ result' = [Slides |-> [k \in 1..Len(deck.Slide) |-> <<>>],
                                  SlideCount |-> Len(deck.Slide), Format |-> "svg"]
                    /\ pc' = "ploop"
    /\ UNCHANGED <<deck, slide, li, ei, fin, fout, procs, resolver, queue, cache>>

\* `for i := range d.Slide`: a fresh buffer and doc, then svgslide(doc, d, i, cw, ch)
ProcessLoop ==
    /\ pc = "ploop"
    /\ pi < Len(d.Slide)
    /\ calls' = <<>>
    /\ n' = pi
    /\ pc' = "svgslide"
    /\ UNCHANGED <<deck, fontmap, caller, d, slide, li, ei, err, result, pi, fin, fout, procs, resolver, queue, cache>>

ProcessReturn ==
    /\ pc = "ploop"
    /\ pi >= Len(d.Slide)
    /\ pc' = "idle"
    /\ UNCHANGED <<deck, fontmap, caller, d, n, slide, li, ei, calls, err, result, pi,
                   fin, fout, procs, resolver, queue, cache>>

\* svgslide returns to the entry point that called it
Return ==
    /\ DropLocals
    /\ IF caller = "Process"
       THEN /\ result' = [result EXCEPT !.Slides[pi + 1] = calls']
            /\ pi' = pi + 1
            /\ pc' = "ploop"
       ELSE /\ pc' = "idle"
            /\ UNCHANGED <<result, pi>>
    /\ UNCHANGED <<caller, d, n, err>>

----------------------------------------------------------------------------
(* svgslide, one action per step *)

Startview ==
    /\ pc = "svgslide"
    /\ IF n < 0 \/ n > Len(d.Slide) - 1
       THEN /\ calls' = calls
            /\ Return
       ELSE /\ calls' = calls \o Tag(<<[op |-> "Startview",
                                         a |-> <<cw, ch, R(0), R(0), cw, ch>>]>>, "view", 0)
            /\ slide' = d.Slide[n + 1]
            /\ pc' = "bg"
            /\ UNCHANGED <<caller, d, n, li, ei, err, result, pi>>
    /\ UNCHANGED <<deck, fontmap, fin, fout, procs, resolver, queue, cache>>

Background ==
    /\ pc = "bg"
    /\ calls' = calls \o (IF slide.Bg # NoColor
                          THEN Tag(background(cw, ch, slide.Bg), "bg", 0) ELSE <<>>)
    /\ pc' = "grad"
    /\ UNCHANGED <<deck, fontmap, caller, d, n, slide, li, ei, err, result, pi, fin, fout, procs, resolver, queue, cache>>

GradientCalls_either(sl, w, h) ==
    IF sl.Gradcolor1 # NoColor \/ sl.Gradcolor2 # NoColor
    THEN <<[op |-> "Def"],
           [op |-> "LinearGradient", id |-> "slidegrad",
            a |-> <<R(0), R(0), R(0), R(100)>>,
            stops |-> <<[Offset |-> 0, Color |-> sl.Gradcolor1, Opacity |-> R(1)],
                        [Offset |-> 100, Color |-> sl.Gradcolor2, Opacity |-> R(1)]>>],
           [op |-> "DefEnd"],
           [op |-> "Rect", a |-> <<R(0), R(0), w, h>>,
            st |-> [fill |-> Named("url(#slidegrad)")]]>>
    ELSE <<>>

\* lines 429-438
GradientCalls(sl, w, h) ==
    IF sl.Gradcolor1 # NoColor /\ sl.Gradcolor2 # NoColor
    THEN <<[op |-> "Def"],
           [op |-> "LinearGradient", id |-> "slidegrad",
            a |-> <<R(0), R(0), R(0), R(100)>>,
            stops |-> <<[Offset |-> 0, Color |-> sl.Gradcolor1, Opacity |-> R(1)],
                        [Offset |-> 100, Color |-> sl.Gradcolor2, Opacity |-> R(1)]>>],
           [op |-> "DefEnd"],
           [op |-> "Rect", a |-> <<R(0), R(0), w, h>>,
            st |-> [fill |-> Named("url(#slidegrad)")]]>>
    ELSE <<>>

Gradient ==
    /\ pc = "grad"
    /\ calls' = calls \o Tag(GradientCalls(slide, cw, ch), "grad", 0)
    /\ pc' = "fg"
    /\ UNCHANGED <<deck, fontmap, caller, d, n, slide, li, ei, err, result, pi, fin, fout, procs, resolver, queue, cache>>

\* the deck if `slide` were a reference to d.Slide[k] and not a copy of it
DeckAfter_aliased(dk, k, sl) == [dk EXCEPT !.Slide[k + 1] = sl]

\* the deck after svgslide has assigned to its local sl: `slide := d.Slide[n]`
\* copies the struct and `for _, t := range ...` copies each entry, so an
\* assignment to slide.Fg, t.Color, t.Font, t.Lp, l.Wp ... stays in the copy
DeckAfter(dk, k, sl) == dk

DefaultFg ==
    /\ pc = "fg"
    /\ slide' = IF slide.Fg = NoColor THEN [slide EXCEPT !.Fg = Named("black")] ELSE slide
    /\ d' = DeckAfter(d, n, slide')
    /\ li' = 1
    /\ ei' = 1
    /\ pc' = "layers"
    /\ UNCHANGED <<deck, fontmap, caller, n, calls, err, result, pi, fin, fout, procs, resolver, queue, cache>>

\* the loop of layer `layer` is at an entry
AtEntry(layer) ==
    /\ pc = "layers"
    /\ li <= Len(layers)
    /\ layers[li] = layer
    /\ ei <= Len(LayerEntries(slide, layer))

\* the body of a layer's loop made the calls cs for the entry at ei
Drew(cs, layer) ==
    /\ calls' = calls \o Tag(cs, layer, ei)
    /\ ei' = ei + 1
    /\ UNCHANGED <<deck, fontmap, pc, caller, d, n, slide, li, err, result, pi, fin, fout, procs, resolver, queue, cache>>

DrawImage ==
    /\ AtEntry("image")
    /\ \E ub \in UndefInt :
          Drew(DrawImageEntry(fontmap, slide.Fg, cw, ch, Entry(slide, "image", ei), ub), "image")

DrawRect ==
    /\ AtEntry("rect")
    /\ Drew(DrawRectEntry(cw, ch, Entry(slide, "rect", ei)), "rect")

DrawEllipse ==
    /\ AtEntry("ellipse")
    /\ Drew(DrawEllipseEntry(cw, ch, Entry(slide, "ellipse", ei)), "ellipse")

DrawCurve ==
    /\ AtEntry("curve")
    /\ Drew(DrawCurveEntry(cw, ch, Entry(slide, "curve", ei)), "curve")

DrawArc ==
    /\ AtEntry("arc")
    /\ Drew(DrawArcEntry(cw, ch, Entry(slide, "arc", ei)), "arc")

DrawLine ==
    /\ AtEntry("line")
    /\ Drew(DrawLineEntry(cw, ch, Entry(slide, "line", ei)), "line")

DrawPoly ==
    /\ AtEntry("poly")
    /\ Drew(DrawPolyEntry(cw, ch, Entry(slide, "poly", ei)), "poly")

DrawText ==
    /\ AtEntry("text")
    /\ Drew(DrawTextEntry(fontmap, slide.Fg, cw, ch, Entry(slide, "text", ei)), "text")

DrawList ==
    /\ AtEntry("list")
    /\ Drew(DrawListEntry(fontmap, slide.Fg, cw, ch, Entry(slide, "list", ei)), "list")

\* the first layer after position k whose collection has an entry (a loop over
\* an empty collection does nothing), or Len(layers) + 1
RECURSIVE NextLoop(_, _)
NextLoop(sl, k) ==
    IF k + 1 > Len(layers) THEN Len(layers) + 1
    ELSE IF LayerEntries(sl, layers[k + 1]) # <<>> THEN k + 1
    ELSE NextLoop(sl, k + 1)

\* a layer's loop is over: on to the next layer
NextLayer ==
    /\ pc = "layers"
    /\ li <= Len(layers)
    /\ ei > Len(LayerEntries(slide, layers[li]))
    /\ li' = NextLoop(slide, li)
    /\ ei' = 1
    /\ UNCHANGED <<deck, fontmap, pc, caller, d, n, slide, calls, err, result, pi,
                   fin, fout, procs, resolver, queue, cache>>

\* doc.End() and the return
EndView ==
    /\ pc = "layers"
    /\ li > Len(layers)
    /\ calls' = calls \o Tag(<<[op |-> "End"]>>, "end", 0)
    /\ Return
    /\ UNCHANGED <<deck, fontmap, fin, fout, procs, resolver, queue, cache>>

Next ==
    \/ \E slideIndex \in -1..Len(deck.Slide) : RenderSlide(slideIndex)
    \/ \E format \in {"svg", "png"}, parse \in {"ok", "decksh processing failed"} :
          Process(format, parse)
    \/ ProcessLoop
    \/ ProcessReturn
    \/ Startview
    \/ Background
    \/ Gradient
    \/ DefaultFg
    \/ DrawImage
    \/ DrawRect
    \/ DrawEllipse
    \/ DrawCurve
    \/ DrawArc
    \/ DrawLine
    \/ DrawPoly
    \/ DrawText
    \/ DrawList
    \/ NextLayer
    \/ EndView

Spec == Init /\ [][Next]_vars


----------------------------------------------------------------------------
(* what the properties below speak about *)

\* the slide record whose drawing calls `calls` holds (when calls # <<>>)
Src == d.Slide[n + 1]

W == R(d.Canvas.Width)
H == R(d.Canvas.Height)

\* svgslide has run to its end: the last call closes the viewport
Finished == calls # <<>> /\ calls[Len(calls)].op = "End"

Categories == <<"image", "rect", "ellipse", "curve", "arc", "line", "poly", "text", "list">>

IsCategory(c) == \E k \in 1..Len(Categories) : Categories[k] = c

Rank(c) == CHOOSE k \in 1..Len(Categories) : Categories[k] = c

\* the positions of the calls made for entry k of category c
CallsOf(c, k) == {p \in 1..Len(calls) : calls[p].layer = c /\ calls[p].idx = k}

BothGradients(sl) == sl.Gradcolor1 # NoColor /\ sl.Gradcolor2 # NoColor

NoEntries(sl) == \A k \in 1..Len(Categories) : LayerEntries(sl, Categories[k]) = <<>>

\* a call without the marks of who made it
Bare(c) == [f \in DOMAIN c \ {"layer", "idx"} |-> c[f]]

----------------------------------------------------------------------------
(* C1 *)

\* C1: in the calls emitted by one svgslide run, every call of an earlier
\* category precedes every call of a later category, in the order image, rect,
\* ellipse, curve, arc, line, poly, text, list; and the primitives that only
\* one category uses carry that category.
C1_CategoryOrder ==
    /\ \A p, q \in 1..Len(calls) :
          (p < q /\ IsCategory(calls[p].layer) /\ IsCategory(calls[q].layer))
             => Rank(calls[p].layer) <= Rank(calls[q].layer)
    /\ \A p \in 1..Len(calls) :
          /\ calls[p].op = "Image" => calls[p].layer = "image"
          /\ calls[p].op = "Ellipse" => calls[p].layer = "ellipse"
          /\ calls[p].op = "Qbez" => calls[p].layer = "curve"
          /\ calls[p].op = "Arc" => calls[p].layer = "arc"
          /\ calls[p].op = "Line" => calls[p].layer = "line"
          /\ calls[p].op = "Polygon" => calls[p].layer = "poly"
          /\ calls[p].op = "Circle" => calls[p].layer = "list"

\* a finished slide that drew a polygon and, after it, a text run
C1_Witness ==
    /\ Finished
    /\ \E p, q \in 1..Len(calls) :
          p < q /\ calls[p].layer = "poly" /\ calls[q].layer = "text"

----------------------------------------------------------------------------
(* C2 *)

\* the calls svgslide's loop body makes for entry k of category c of slide sl;
\* a set, as int() of a non-finite image height is left to the implementation
EntryCalls(sl, c, k) ==
    LET fg == IF sl.Fg = NoColor THEN Named("black") ELSE sl.Fg
        e == LayerEntries(sl, c)[k]
    IN  CASE c = "image" -> {DrawImageEntry(fontmap, fg, W, H, e, ub) : ub \in UndefInt}
          [] c = "rect" -> {DrawRectEntry(W, H, e)}
          [] c = "ellipse" -> {DrawEllipseEntry(W, H, e)}
          [] c = "curve" -> {DrawCurveEntry(W, H, e)}
          [] c = "arc" -> {DrawArcEntry(W, H, e)}
          [] c = "line" -> {DrawLineEntry(W, H, e)}
          [] c = "poly" -> {DrawPolyEntry(W, H, e)}
          [] c = "text" -> {DrawTextEntry(fontmap, fg, W, H, e)}
          [] c = "list" -> {DrawListEntry(fontmap, fg, W, H, e)}

\* C2: within a category the entries are drawn in input order: the calls of
\* entry i all precede the calls of entry j > i, the calls of one entry are
\* contiguous and are exactly the calls of that entry of the slide record (so
\* none is drawn twice or in another entry's place), and once the slide is
\* finished every entry has been drawn.
C2_InputOrder ==
    calls # <<>> =>
       /\ \A p, q \in 1..Len(calls) :
             (p < q /\ IsCategory(calls[p].layer) /\ calls[p].layer = calls[q].layer)
                => calls[p].idx <= calls[q].idx
       /\ \A p \in 1..Len(calls) :
             IsCategory(calls[p].layer) =>
                LET c == calls[p].layer
                    k == calls[p].idx
                    ps == CallsOf(c, k)
                    lo == CHOOSE x \in ps : \A y \in ps : x <= y
                IN  /\ k \in 1..Len(LayerEntries(Src, c))
                    /\ ps = lo..(lo + Cardinality(ps) - 1)
                    /\ [x \in 1..Cardinality(ps) |-> Bare(calls[lo + x - 1])]
                          \in EntryCalls(Src, c, k)
       /\ Finished =>
             \A x \in 1..Len(Categories) :
                \A k \in 1..Len(LayerEntries(Src, Categories[x])) :
                   \/ CallsOf(Categories[x], k) # {}
                   \/ <<>> \in EntryCalls(Src, Categories[x], k)

\* a finished slide with two different rectangles, each drawn
C2_Witness ==
    /\ Finished
    /\ Len(Src.Rect) = 2
    /\ Src.Rect[1] # Src.Rect[2]
    /\ CallsOf("rect", 1) # {}
    /\ CallsOf("rect", 2) # {}


----------------------------------------------------------------------------
(* C3 *)

\* C3: a finished slide with a background colour, no gradient drawn (not both
\* gradient colours set) and no entries has exactly three calls: the viewport
\* opened on (W, H), one fill-rect over (0, 0, W, H) in the background colour
\* (an HSV token resolved to RGB) with fill opacity 1, and the viewport closed.
C3_BackgroundOnly ==
    (Finished /\ Src.Bg # NoColor /\ ~BothGradients(Src) /\ NoEntries(Src)) =>
       /\ Len(calls) = 3
       /\ Bare(calls[1]) = [op |-> "Startview", a |-> <<W, H, R(0), R(0), W, H>>]
       /\ Bare(calls[2]) =
             [op |-> "Rect", a |-> <<R(0), R(0), W, H>>,
              st |-> [fill |-> IF Src.Bg.name = "hsv" THEN h2r(Src.Bg) ELSE Src.Bg,
                      fillopacity |-> R(1)]]
       /\ Bare(calls[3]) = [op |-> "End"]

\* the scenario of the specification: background "white", nothing else
C3_Witness ==
    /\ Finished
    /\ Src.Bg = Named("white")
    /\ Src.Gradcolor1 = NoColor /\ Src.Gradcolor2 = NoColor
    /\ NoEntries(Src)
    /\ Len(calls) = 3

----------------------------------------------------------------------------
(* C4 *)

GradientPositions == {p \in 1..Len(calls) : calls[p].layer = "grad"}

\* svgslide is past its gradient step
PastGradient == pc \in {"fg", "layers"} \/ Finished

\* the four calls of the gradient start at position k
GradientAt(k) ==
    /\ k + 3 <= Len(calls)
    /\ Bare(calls[k]) = [op |-> "Def"]
    /\ Bare(calls[k + 1]) =
          [op |-> "LinearGradient", id |-> "slidegrad",
           a |-> <<R(0), R(0), R(0), R(100)>>,
           stops |-> <<[Offset |-> 0, Color |-> Src.Gradcolor1, Opacity |-> R(1)],
                       [Offset |-> 100, Color |-> Src.Gradcolor2, Opacity |-> R(1)]>>]
    /\ Bare(calls[k + 2]) = [op |-> "DefEnd"]
    /\ Bare(calls[k + 3]) =
          [op |-> "Rect", a |-> <<R(0), R(0), W, H>>,
           st |-> [fill |-> Named("url(#slidegrad)")]]

\* C4: the gradient definition and the full-canvas gradient fill are emitted if
\* and only if both gradient colours are set; when emitted they directly follow
\* the flat background fill (or the opening of the viewport when there is
\* none), come before every call of a shape, text or list, and define two stops
\* at 0% and 100%, each with opacity 1.
C4_Gradient ==
    calls # <<>> =>
       LET k == 1 + (IF Src.Bg # NoColor THEN 1 ELSE 0)
       IN  /\ GradientPositions # {} => BothGradients(Src)
           /\ (PastGradient /\ BothGradients(Src)) => GradientPositions # {}
           /\ \A p \in 1..Len(calls) :
                 calls[p].op \in {"Def", "LinearGradient", "DefEnd"}
                    => p \in GradientPositions
           /\ GradientPositions # {} =>
                 /\ GradientPositions = (k + 1)..(k + 4)
                 /\ GradientAt(k + 1)
                 /\ Src.Bg # NoColor => calls[k].layer = "bg"
                 /\ \A p \in 1..Len(calls) : IsCategory(calls[p].layer) => p > k + 4

\* a finished slide with a background, both gradient colours and a shape
C4_Witness ==
    /\ Finished
    /\ Src.Bg # NoColor
    /\ BothGradients(Src)
    /\ GradientPositions # {}
    /\ \E p \in 1..Len(calls) : IsCategory(calls[p].layer)


----------------------------------------------------------------------------
(* C5 *)

\* the opacity the claim gives for an opacity control v
OpacityOf(v) ==
    IF v.n < 0 THEN R(0) ELSE IF v.n > 0 THEN Rat(v.n, 100 * v.d) ELSE R(1)

FillShapes == {"rect", "ellipse", "poly"}
StrokeShapes == {"curve", "arc", "line"}

\* the opacity carried by the style of a shape's call
StyleOpacity(c) ==
    IF c.layer \in FillShapes THEN c.st.fillopacity ELSE c.st.strokeopacity

\* C5 as stated: setop(v) is 0 for v < 0, v/100 for v > 0 and 1 for v = 0, and
\* every fill and stroke style emitted for a shape carries exactly setop of the
\* shape's opacity control.
C5_ExactOpacity ==
    \A p \in 1..Len(calls) :
       calls[p].layer \in FillShapes \cup StrokeShapes =>
          LET v == LayerEntries(Src, calls[p].layer)[calls[p].idx].Opacity
          IN  /\ setop(v) = OpacityOf(v)
              /\ StyleOpacity(calls[p]) = OpacityOf(v)

\* C5 (amended): setop(v) is 0 for v < 0, v/100 for v > 0 and 1 for v = 0, and
\* every fill and stroke style emitted for a shape carries setop of the shape's
\* opacity control rounded to two decimal places, as "%.2f" prints it.
C5_RoundedOpacity ==
    \A p \in 1..Len(calls) :
       calls[p].layer \in FillShapes \cup StrokeShapes =>
          LET v == LayerEntries(Src, calls[p].layer)[calls[p].idx].Opacity
              o == OpacityOf(v)
              c == StyleOpacity(calls[p])
          IN  /\ setop(v) = o
              /\ 100 % c.d = 0
              /\ FLe(FAbs(FSub(c, o)), Rat(1, 200))

\* a rectangle with opacity control 33.3 drawn with fill opacity 0.33
C5_Witness ==
    \E p \in 1..Len(calls) :
       /\ calls[p].layer = "rect"
       /\ LayerEntries(Src, "rect")[calls[p].idx].Opacity = Rat(333, 10)
       /\ calls[p].st.fillopacity = Rat(33, 100)

----------------------------------------------------------------------------
(* C7 *)

\* the number of fields of a coordinate list: one more than its spaces
FieldCount(s) == 1 + Cardinality({k \in 1..Len(s) : s[k] = " "})

Malformed(poly) ==
    \/ FieldCount(poly.XC) # FieldCount(poly.YC)
    \/ FieldCount(poly.XC) < 3

\* C7: a polygon whose coordinate lists differ in length or hold fewer than 3
\* points produces no call and no error; every other entry of the slide (every
\* well-formed polygon and every entry of the other categories) is drawn, a
\* well-formed polygon as one fill-polygon with a point per field, and the
\* viewport is closed.
C7_MalformedPolygon ==
    calls # <<>> =>
       /\ \A k \in 1..Len(Src.Polygon) :
             /\ Malformed(Src.Polygon[k]) => CallsOf("poly", k) = {}
             /\ \A p \in CallsOf("poly", k) :
                   /\ calls[p].op = "Polygon"
                   /\ Len(calls[p].px) = FieldCount(Src.Polygon[k].XC)
                   /\ Len(calls[p].py) = FieldCount(Src.Polygon[k].XC)
       /\ err = ""
       /\ (pc = "layers" /\ li > Len(layers)) => ENABLED EndView
       /\ Finished =>
             \A x \in 1..Len(Categories) :
                \A k \in 1..Len(LayerEntries(Src, Categories[x])) :
                   (Categories[x] = "poly" /\ Malformed(Src.Polygon[k]))
                   \/ CallsOf(Categories[x], k) # {}

\* a finished slide whose first polygon has lists of 3 and 2 fields and whose
\* second polygon, well-formed, was drawn
C7_Witness ==
    /\ Finished
    /\ Len(Src.Polygon) = 2
    /\ Malformed(Src.Polygon[1])
    /\ CallsOf("poly", 1) = {}
    /\ CallsOf("poly", 2) # {}

----------------------------------------------------------------------------
(* C8 *)

\* C8: every rectangle entry is emitted as exactly one fill-rect whose origin is
\* (xp/100*W - w/2, (100-yp)/100*H - h/2) with w = wp/100*W and h = hp/100*H (or
\* hr/100*w when hr is set); an unset colour is filled with rgb(127,127,127) and
\* an opacity control of 0 gives fill opacity 1.
C8_Rect ==
    calls # <<>> =>
       \A k \in 1..Len(Src.Rect) :
          LET e == Src.Rect[k]
              w == FDiv(FMul(e.Wp, W), R(100))
              h == IF e.Hr.n = 0 THEN FDiv(FMul(e.Hp, H), R(100))
                   ELSE FDiv(FMul(e.Hr, w), R(100))
              x == FDiv(FMul(e.Xp, W), R(100))
              y == FDiv(FMul(FSub(R(100), e.Yp), H), R(100))
          IN  /\ Cardinality(CallsOf("rect", k)) <= 1
              /\ Finished => Cardinality(CallsOf("rect", k)) = 1
              /\ \A p \in CallsOf("rect", k) :
                    /\ calls[p].op = "Rect"
                    /\ calls[p].a = <<FSub(x, FDiv(w, R(2))), FSub(y, FDiv(h, R(2))), w, h>>
                    /\ e.Color = NoColor =>
                          calls[p].st.fill = [name |-> "rgb", args |-> <<127, 127, 127>>]
                    /\ e.Opacity = R(0) => calls[p].st.fillopacity = R(1)

\* the scenario of the specification: xp=50, yp=50, wp=20, hp=10, colour unset,
\* on a 1000x1000 canvas: origin (400, 450), so centre (500, 500), 200 by 100
C8_Witness ==
    /\ Finished
    /\ W = R(1000) /\ H = R(1000)
    /\ Len(Src.Rect) = 1
    /\ Src.Rect[1] = Dim(50, 50, 20, 10, 0, NoColor, R(0))
    /\ \E p \in CallsOf("rect", 1) :
          /\ calls[p].a = <<R(400), R(450), R(200), R(100)>>
          /\ calls[p].st = [fill |-> [name |-> "rgb", args |-> <<127, 127, 127>>],
                            fillopacity |-> R(1)]


----------------------------------------------------------------------------
(* C9 *)

\* the size of an image entry after its scale percentage, before autoscale
PreScaled(im) ==
    IF im.Scale.n > 0
    THEN [iw |-> Rat(im.Width * im.Scale.n, 100 * im.Scale.d),
          ih |-> Rat(im.Height * im.Scale.n, 100 * im.Scale.d)]
    ELSE [iw |-> R(im.Width), ih |-> R(im.Height)]

ImageCalls == {p \in 1..Len(calls) : calls[p].op = "Image"}

\* C9 as stated: with autoscale on and iw < W the emitted width is W and the
\* emitted height is ih*(W/iw); in every other case the emitted size is (iw, ih).
C9_ExactSize ==
    \A p \in ImageCalls :
       LET im == Src.Image[calls[p].idx]
           sz == PreScaled(im)
       IN  IF im.Autoscale = "on" /\ FLt(sz.iw, W)
           THEN /\ R(calls[p].w) = W
                /\ R(calls[p].h) = FMul(sz.ih, FDiv(W, sz.iw))
           ELSE /\ R(calls[p].w) = sz.iw
                /\ R(calls[p].h) = sz.ih

\* C9 (amended): the emitted width and height are integers, truncated toward
\* zero. For an image entry with pre-scaled size (iw, ih), iw > 0: with
\* autoscale on and iw < W the emitted width is W and the emitted height is
\* ih*(W/iw) truncated; with autoscale off or iw >= W the emitted size is
\* (iw, ih) truncated; so for ih >= 0 autoscale never reduces an emitted
\* dimension. (With iw = 0 and autoscale on the width is W as well.)
C9_TruncatedSize ==
    \A p \in ImageCalls :
       LET im == Src.Image[calls[p].idx]
           sz == PreScaled(im)
           auto == im.Autoscale = "on" /\ FLt(sz.iw, W)
       IN  /\ (auto /\ sz.iw.n > 0) =>
                 /\ R(calls[p].w) = W
                 /\ calls[p].h = Trunc(FDiv(FMul(sz.ih, W), sz.iw))
           /\ (auto /\ sz.iw.n = 0) => R(calls[p].w) = W
           /\ ~auto =>
                 /\ calls[p].w = Trunc(sz.iw)
                 /\ calls[p].h = Trunc(sz.ih)
           /\ (sz.iw.n > 0 /\ sz.ih.n >= 0) =>
                 /\ calls[p].w >= Trunc(sz.iw)
                 /\ calls[p].h >= Trunc(sz.ih)

\* a 300x200 image with autoscale on, on a canvas 1000 wide: 1000 by 666
C9_Witness ==
    \E p \in ImageCalls :
       /\ W = R(1000)
       /\ Src.Image[calls[p].idx].Width = 300
       /\ Src.Image[calls[p].idx].Height = 200
       /\ Src.Image[calls[p].idx].Autoscale = "on"
       /\ calls[p].w = 1000
       /\ calls[p].h = 666

----------------------------------------------------------------------------
(* C10 *)

RequestOutOfRange == n < 0 \/ n >= Len(deck.Slide)

\* C10, in every state: a RenderSlide request that has returned has, for an
\* index outside [0, slideCount), an error and no drawing call at all, and for
\* an index inside, no error and a finished rendering of that slide; only
\* requests inside the range run svgslide.
C10_Returned ==
    caller = "RenderSlide" =>
       /\ pc # "idle" => (~RequestOutOfRange /\ err = "")
       /\ pc = "idle" =>
             IF RequestOutOfRange
             THEN err # "" /\ calls = <<>>
             ELSE err = "" /\ Finished /\ calls[1].op = "Startview"

\* C10, in every step: a request out of range touches neither the deck nor
\* the font table and leaves the pipeline ready for the next request, whose
\* rendering is a function of those alone
C10_Step ==
    (caller' = "RenderSlide" /\ pc = "idle" /\ err' # "") =>
       /\ deck' = deck
       /\ fontmap' = fontmap
       /\ pc' = "idle"
       /\ calls' = <<>>

\* C10: a slide index outside [0, slideCount) is reported as an out-of-range
\* error and emits no drawing call, not even begin-viewport; an index inside
\* the range returns no error; a request out of range does not affect the
\* rendering of any other slide.
C10_SlideIndex == []C10_Returned /\ [][C10_Step]_vars

\* a request for slide 2 of a deck of two slides, after a rendering of slide 1
C10_Witness ==
    /\ caller = "RenderSlide"
    /\ pc = "idle"
    /\ Len(deck.Slide) = 2
    /\ n = 2
    /\ err # ""
    /\ calls = <<>>

----------------------------------------------------------------------------
(* the geometry functions on their own *)

Percents == {R(-10), R(0), R(25), Rat(333, 10), R(100), R(150)}

PureInputs ==
    [w : {R(1), R(1000), R(1920)}, h : {R(0), R(1000), R(1080)},
     xp : Percents, yp : Percents, yp2 : Percents, sp : {R(0), R(2)}]

InitPure ==
    /\ deck = NoDeck
    /\ fontmap = NoFonts
    /\ pc = "pure"
    /\ caller = ""
    /\ d = NoDeck
    /\ n = 0
    /\ slide = NoSlide
    /\ li = 1
    /\ ei = 1
    /\ calls = <<>>
    /\ err = ""
    /\ result = NoResult
    /\ pi = 0
    /\ fin \in PureInputs
    /\ fout = <<>>
    /\ procs = <<>>
    /\ resolver = <<>>
    /\ queue = <<>>
    /\ cache = <<>>

\* dimen applied to (w, h, xp, yp, sp) and to (w, h, xp, yp2, sp)
ApplyDimen ==
    /\ pc = "pure"
    /\ fout = <<>>
    /\ fout' = <<dimen(fin.w, fin.h, fin.xp, fin.yp, fin.sp),
                 dimen(fin.w, fin.h, fin.xp, fin.yp2, fin.sp)>>
    /\ UNCHANGED <<deck, fontmap, pc, caller, d, n, slide, li, ei, calls, err, result,
                   pi, fin, procs, resolver, queue, cache>>

NextPure == ApplyDimen

SpecPure == InitPure /\ [][NextPure]_vars

----------------------------------------------------------------------------
(* C6 *)

\* C6: dimen(w, h, xp, yp, sp) is (xp/100*w, (100-yp)/100*h, sp/100*w); for
\* w, h > 0 the returned y strictly decreases as yp increases;
\* dimen(w, h, 0, 0, 0) = (0, h, 0) and dimen(w, h, 100, 100, 0) = (w, 0, 0).
C6_Dimen ==
    fout # <<>> =>
       LET r == fout[1]
           r2 == fout[2]
       IN  /\ r[1] = Rat(fin.xp.n * fin.w.n, 100 * fin.xp.d * fin.w.d)
           /\ r[2] = Rat((100 * fin.yp.d - fin.yp.n) * fin.h.n, 100 * fin.yp.d * fin.h.d)
           /\ r[3] = Rat(fin.sp.n * fin.w.n, 100 * fin.sp.d * fin.w.d)
           /\ (fin.w.n > 0 /\ fin.h.n > 0 /\ FLt(fin.yp, fin.yp2)) => FLt(r2[2], r[2])
           /\ (fin.xp = R(0) /\ fin.yp = R(0) /\ fin.sp = R(0)) => r = <<R(0), fin.h, R(0)>>
           /\ (fin.xp = R(100) /\ fin.yp = R(100) /\ fin.sp = R(0))
                 => r = <<fin.w, R(0), R(0)>>

\* dimen(1920, 1080, 0, 0, 0) = (0, 1080, 0), above dimen(1920, 1080, 0, 100, 0)
C6_Witness ==
    /\ fout # <<>>
    /\ fin = [w |-> R(1920), h |-> R(1080), xp |-> R(0), yp |-> R(0), yp2 |-> R(100),
              sp |-> R(0)]
    /\ fout[1] = <<R(0), R(1080), R(0)>>
    /\ fout[2] = <<R(0), R(0), R(0)>>


----------------------------------------------------------------------------
(* C11 *)

\* the deck handed to svgslide by the running or last call
DeckBefore == IF caller = "Process" THEN parseDeck(deck) ELSE deck

\* a call has entered svgslide, or has come back from it
Rendering == caller # "" /\ err = ""

\* C11: rendering a slide leaves the deck and the slide record unchanged:
\* during and after svgslide every field of every slide (foreground, and each
\* entry's colour, font, alignment, line spacing and wrap width) has the value
\* it had before the call, also where a default was used for drawing.
C11_DeckUnchanged == Rendering => d = DeckBefore

\* a slide without foreground, with a text run without colour, font and line
\* spacing, has been drawn in black "sans" and is as it was
C11_Witness ==
    /\ caller = "RenderSlide"
    /\ pc = "idle"
    /\ err = ""
    /\ Finished
    /\ d.Slide[n + 1].Fg = NoColor
    /\ \E p \in 1..Len(calls) :
          /\ calls[p].layer = "text"
          /\ d.Slide[n + 1].Text[calls[p].idx].Color = NoColor
          /\ d.Slide[n + 1].Text[calls[p].idx].Lp = R(0)
          /\ calls[p].op = "Text"
          /\ "st" \in DOMAIN calls[p]
          /\ calls[p].st.fill = Named("black")
          /\ calls[p].st.fontfamily = FontInit.sans


----------------------------------------------------------------------------
(* Process calls running concurrently on one pipeline object *)

\* the goroutines that call Process on the same *WASMPipeline
Goroutines == {1, 2}

\* the font tokens svgslide passes to fontlookup for a slide, in order: one
\* per showtext, textwrap or dolist call
CaptionReads(im) ==
    IF Len(im.Caption) > 0 THEN <<IF im.Font = "" THEN "sans" ELSE im.Font>> ELSE <<>>

TextReads(t) ==
    LET font == IF t.Type = "code" THEN "mono" ELSE IF t.Font = "" THEN "sans" ELSE t.Font
        tdata == IF t.File # <<>> THEN t.File ELSE t.Tdata
    IN  IF t.Type = "block" THEN <<font>>
        ELSE [k \in 1..Len(Split(tdata, "\n")) |-> font]

ListReads(l) == <<IF l.Font = "" THEN "sans" ELSE l.Font>>

FontReads(sl) ==
    Flatten([k \in 1..Len(sl.Image) |-> CaptionReads(sl.Image[k])])
    \o Flatten([k \in 1..Len(sl.Text) |-> TextReads(sl.Text[k])])
    \o Flatten([k \in 1..Len(sl.List) |-> ListReads(sl.List[k])])

\* the decks the concurrent calls are given
ConcSlides ==
    {MkSlide(EmptyHeader, <<>>)}
    \cup {MkSlide(EmptyHeader, <<t>>) : t \in In("text", TextPool) \cup In("list", ListCore)}

ConcDecks ==
    {[Canvas |-> Canvas1000, Slide |-> <<sl>>] : sl \in ConcSlides}
    \cup {[Canvas |-> Canvas1000, Slide |-> <<sl, MkSlide(EmptyHeader, <<>>)>>] :
            sl \in ConcSlides}

FontmapPcs == <<"fontmap_sans", "fontmap_serif", "fontmap_mono", "parse">>
FontmapAlias == [fontmap_sans |-> "sans", fontmap_serif |-> "serif", fontmap_mono |-> "mono"]
WritePcs == {"fontmap_sans", "fontmap_serif", "fontmap_mono"}

\* a fresh pipeline, and each goroutine about to call Process with its source
InitConc ==
    /\ deck = NoDeck
    /\ fontmap = NoFonts
    /\ pc = "conc"
    /\ caller = ""
    /\ d = NoDeck
    /\ n = 0
    /\ slide = NoSlide
    /\ li = 1
    /\ ei = 1
    /\ calls = <<>>
    /\ err = ""
    /\ result = NoResult
    /\ pi = 0
    /\ fin = <<>>
    /\ fout = <<>>
    /\ procs \in [Goroutines ->
                    {[pc |-> "start", src |-> dk, i |-> 0, k |-> 1, got |-> <<>>, err |-> ""] :
                       dk \in ConcDecks}]
    /\ resolver = <<>>
    /\ queue = <<>>
    /\ cache = <<>>

ConcFrame ==
    UNCHANGED <<deck, fontmap, pc, caller, d, n, slide, li, ei, calls, err, result, pi,
                fin, fout, resolver, queue, cache>>

ConcFrameButFontmap ==
    UNCHANGED <<deck, pc, caller, d, n, slide, li, ei, calls, err, result, pi, fin, fout,
                resolver, queue, cache>>

\* lines 71-73
PFormat(c, format) ==
    /\ procs[c].pc = "start"
    /\ procs' = [procs EXCEPT ![c] =
                    IF format # "svg"
                    THEN [@ EXCEPT !.pc = "done", !.err = "unsupported format"]
                    ELSE [@ EXCEPT !.pc = "fontmap_sans"]]
    /\ ConcFrame

\* goroutine c2 is inside an access of the font map
Accessing(c2) == procs[c2].pc \in WritePcs \cup {"svgslide"}

\* lines 76-78, one assignment each, with no lock taken.  An assignment made
\* while another goroutine is inside an access of the map is a data race: Go's
\* runtime either lets it pass or ends the program ("concurrent map writes",
\* "concurrent map read and map write").
PFontmap(c, fatal) ==
    /\ procs[c].pc \in WritePcs
    /\ fatal => \E c2 \in Goroutines \ {c} : Accessing(c2)
    /\ LET alias == FontmapAlias[procs[c].pc]
           next == FontmapPcs[1 + CHOOSE k \in 1..3 : FontmapPcs[k] = procs[c].pc]
       IN  IF fatal
           THEN /\ procs' = [c2 \in Goroutines |-> [procs[c2] EXCEPT !.pc = "fatal"]]
                /\ UNCHANGED fontmap
           ELSE /\ fontmap' = [a \in DOMAIN fontmap \cup {alias} |->
                                 IF a = alias THEN FontInit[alias] ELSE fontmap[a]]
                /\ procs' = [procs EXCEPT ![c].pc = next]
    /\ ConcFrameButFontmap

\* lines 80-91: decksh.Process and parseDeck
PParse(c, parse) ==
    /\ procs[c].pc = "parse"
    /\ procs' = [procs EXCEPT ![c] =
                    IF parse # "ok"
                    THEN [@ EXCEPT !.pc = "done", !.err = parse]
                    ELSE [@ EXCEPT !.pc = "loop", !.i = 0]]
    /\ ConcFrame

\* line 103: the next slide's svgslide begins
PLoop(c) ==
    /\ procs[c].pc = "loop"
    /\ procs[c].i < Len(procs[c].src.Slide)
    /\ procs' = [procs EXCEPT ![c] = [@ EXCEPT !.pc = "svgslide", !.k = 1, !.got = <<>>]]
    /\ ConcFrame

\* svgslide reaches a fontlookup and reads the shared map
PLookup(c) ==
    /\ procs[c].pc = "svgslide"
    /\ procs[c].k <= Len(FontReads(procs[c].src.Slide[procs[c].i + 1]))
    /\ procs' = [procs EXCEPT ![c] =
                    [@ EXCEPT !.k = @ + 1,
                              !.got = Append(@, fontlookup(fontmap,
                                         FontReads(procs[c].src.Slide[procs[c].i + 1])[procs[c].k]))]]
    /\ ConcFrame

\* svgslide returns
PSlideEnd(c) ==
    /\ procs[c].pc = "svgslide"
    /\ procs[c].k > Len(FontReads(procs[c].src.Slide[procs[c].i + 1]))
    /\ procs' = [procs EXCEPT ![c] = [@ EXCEPT !.pc = "loop", !.i = @ + 1]]
    /\ ConcFrame

\* line 110
PReturn(c) ==
    /\ procs[c].pc = "loop"
    /\ procs[c].i >= Len(procs[c].src.Slide)
    /\ procs' = [procs EXCEPT ![c].pc = "done"]
    /\ ConcFrame

NextConc ==
    \E c \in Goroutines :
       \/ \E format \in {"svg", "pdf"} : PFormat(c, format)
       \/ \E fatal \in BOOLEAN : PFontmap(c, fatal)
       \/ \E parse \in {"ok", "deck parsing failed"} : PParse(c, parse)
       \/ PLoop(c)
       \/ PLookup(c)
       \/ PSlideEnd(c)
       \/ PReturn(c)

SpecConc == InitConc /\ [][NextConc]_vars

----------------------------------------------------------------------------
(* C12 *)

InRender(c) == procs[c].pc = "svgslide"

\* the font-alias table holds every alias when a slide render is in progress
C12_Initialised ==
    \A c \in DOMAIN procs :
       InRender(c) => \A a \in DOMAIN FontInit : a \in DOMAIN fontmap /\ fontmap[a] = FontInit[a]

\* no step assigns to the font-alias table while a slide render is in progress
C12_NoWrite ==
    (\E c \in DOMAIN procs : InRender(c)) =>
       ~ \E c2 \in DOMAIN procs : procs[c2].pc \in WritePcs /\ procs'[c2].pc # procs[c2].pc

\* C12: the font-alias table is fully initialised before any slide render
\* begins and is never written while a slide render is in progress, for every
\* interleaving of concurrent Process calls, also on the same pipeline object.
C12_FontTable == []C12_Initialised /\ [][C12_NoWrite]_vars


----------------------------------------------------------------------------
(* C13 *)

\* the foreground colour of the slide being drawn: "black" when it sets none
Foreground == IF Src.Fg = NoColor THEN Named("black") ELSE Src.Fg

\* the calls of entry k of layer c that carry the entry's own colour: the
\* styled Text calls and the group style of a text run, the group style and
\* the bullets of a list
ColourCalls(c, k) ==
    {p \in 1..Len(calls) :
        /\ calls[p].layer = c
        /\ calls[p].idx = k
        /\ calls[p].op \in (IF c = "text" THEN {"Text", "Gstyle"} ELSE {"Gstyle", "Circle"})
        /\ "st" \in DOMAIN calls[p]
        /\ "fill" \in DOMAIN calls[p].st}

\* C13: a text run or list whose colour is unset is drawn in the slide's
\* foreground colour, which is "black" when the slide sets none; a rectangle,
\* ellipse, curve, arc, line or polygon whose colour is unset is drawn in
\* rgb(127,127,127) whatever the slide's foreground colour is.
C13_DefaultColours ==
    /\ calls # <<>> =>
          \A c \in {"text", "list"} :
             \A k \in 1..Len(LayerEntries(Src, c)) :
                LayerEntries(Src, c)[k].Color = NoColor =>
                   /\ \A p \in ColourCalls(c, k) : calls[p].st.fill = Foreground
                   /\ Finished => ColourCalls(c, k) # {}
    /\ \A p \in 1..Len(calls) :
          (/\ calls[p].layer \in FillShapes \cup StrokeShapes
           /\ LayerEntries(Src, calls[p].layer)[calls[p].idx].Color = NoColor) =>
             IF calls[p].layer \in FillShapes
             THEN calls[p].st.fill = [name |-> "rgb", args |-> <<127, 127, 127>>]
             ELSE calls[p].st.stroke = [name |-> "rgb", args |-> <<127, 127, 127>>]

\* on a slide with foreground "navy": a rectangle without colour drawn gray
\* and a text run without colour drawn navy
C13_Witness ==
    /\ Finished
    /\ Src.Fg = Named("navy")
    /\ \E p \in 1..Len(calls) :
          /\ calls[p].layer = "rect"
          /\ Src.Rect[calls[p].idx].Color = NoColor
          /\ calls[p].st.fill = defaultColor
    /\ \E k \in 1..Len(Src.Text) :
          /\ Src.Text[k].Color = NoColor
          /\ \E p \in ColourCalls("text", k) : calls[p].st.fill = Named("navy")


----------------------------------------------------------------------------
(* the colour resolver on its own *)

Hues == {-360, -10, 0, 60, 120, 240, 359, 360, 400}
Saturations == {-50, 0, 50, 100, 101}
Values == {-50, 0, 50, 100, 150}

\* "hsv(h,s,v)" tokens, and one with two numbers only
HsvTokens ==
    {Hsv(h, sa, v) : h \in Hues, sa \in Saturations, v \in Values}
    \cup {[name |-> "hsv", args |-> <<h, sa>>] : h \in Hues, sa \in Saturations}

InitColour ==
    /\ deck = NoDeck
    /\ fontmap = NoFonts
    /\ pc = "pure"
    /\ caller = ""
    /\ d = NoDeck
    /\ n = 0
    /\ slide = NoSlide
    /\ li = 1
    /\ ei = 1
    /\ calls = <<>>
    /\ err = ""
    /\ result = NoResult
    /\ pi = 0
    /\ fin \in {[color |-> c] : c \in HsvTokens \cup {Red, defaultColor}}
    /\ fout = <<>>
    /\ procs = <<>>
    /\ resolver = <<>>
    /\ queue = <<>>
    /\ cache = <<>>

\* svgcolor applied to a colour token
ApplySvgcolor ==
    /\ pc = "pure"
    /\ fout = <<>>
    /\ fout' = <<svgcolor(fin.color)>>
    /\ UNCHANGED <<deck, fontmap, pc, caller, d, n, slide, li, ei, calls, err, result,
                   pi, fin, procs, resolver, queue, cache>>

NextColour == ApplySvgcolor

SpecColour == InitColour /\ [][NextColour]_vars

----------------------------------------------------------------------------
(* C14 *)

Black == [name |-> "rgb", args |-> <<0, 0, 0>>]

\* an "hsv(h,s,v)" token with a component outside its range
HsvOutOfRange(c) ==
    /\ c.name = "hsv"
    /\ Len(c.args) = 3
    /\ \/ c.args[1] < 0 \/ c.args[1] >= 360
       \/ c.args[2] < 0 \/ c.args[2] > 100
       \/ c.args[3] < 0 \/ c.args[3] > 100

\* C14: every HSV colour token with a component outside its range (h outside
\* [0,360), s outside [0,100] or v outside [0,100]) resolves to black,
\* rgb(0,0,0); in particular whenever s or v exceeds 100 the result is black.
C14_OutOfRangeBlack ==
    (fout # <<>> /\ HsvOutOfRange(fin.color)) => fout[1] = Black

\* the part that holds: a token whose s or v exceeds 100 resolves to black
C14_ExceedsBlack ==
    (fout # <<>> /\ fin.color.name = "hsv" /\ Len(fin.color.args) = 3
       /\ (fin.color.args[2] > 100 \/ fin.color.args[3] > 100)) => fout[1] = Black


----------------------------------------------------------------------------
(* C15 *)

\* the Text calls of text run k, in order
LinesOf(k) ==
    SelectSeq(calls, LAMBDA c : c.layer = "text" /\ c.idx = k /\ c.op = "Text")

\* the length of a line "w1 w2 ... wn " with its last word removed
WithoutLastWord(line) ==
    LET ends == {j \in 1..(Len(line) - 2) : line[j] = " "}
    IN  IF ends = {} THEN 0 ELSE CHOOSE j \in ends : \A i \in ends : i <= j

\* the estimated width of cnt characters at font size fs
Estimate(fs, cnt) == FMul(FMul(Rat(65, 100), fs), R(cnt))

\* wrap width plus start x of a block run: W/2 when wp is unset, wp% of W otherwise
WrapLimit(t) ==
    FAdd(IF t.Wp = R(0) THEN FDiv(W, R(2)) ELSE FDiv(FMul(W, t.Wp), R(100)),
         FDiv(FMul(t.Xp, W), R(100)))

\* C15: in block mode the wrap width is W/2 when the run's wrap percentage is
\* unset and wp% of W otherwise, and every emitted line overflows by at most
\* one word: each emitted line with its last word removed has estimated width
\* 0.65 x fontSize x characterCount not exceeding wrapWidth + x.  (A line that
\* is followed by another is one that did exceed wrapWidth + x.)
C15_BlockWrap ==
    calls # <<>> =>
       \A k \in 1..Len(Src.Text) :
          Src.Text[k].Type = "block" =>
             LET t == Src.Text[k]
                 fs == FDiv(FMul(t.Sp, W), R(100))
                 ls == LinesOf(k)
             IN  \A j \in 1..Len(ls) :
                    /\ FLe(Estimate(fs, WithoutLastWord(ls[j].txt)), WrapLimit(t))
                    /\ j < Len(ls) => FGt(Estimate(fs, Len(ls[j].txt)), WrapLimit(t))

\* a block run with wrap width unset on a canvas 1000 wide, at x = 100 with font
\* size 100: "aa bbb ccc " (715 > 600, and 455 without "ccc"), then "dd e "
C15_Witness ==
    /\ Finished
    /\ W = R(1000)
    /\ \E k \in 1..Len(Src.Text) :
          /\ Src.Text[k].Type = "block"
          /\ Src.Text[k].Wp = R(0)
          /\ Len(LinesOf(k)) = 2
          /\ LinesOf(k)[1].txt = <<"a", "a", " ", "b", "b", "b", " ", "c", "c", "c", " ">>
          /\ LinesOf(k)[2].txt = <<"d", "d", " ", "e", " ">>


----------------------------------------------------------------------------
(* ImportResolver (pkg/pipeline/imports.go)                                 *)
(* A line is the sequence of its words; a quoted file name is one word.     *)
(* A path is the sequence of its components.                                *)

MaxDepth == 3
MaxExpands == 2

\* the quoted words of the sources, and the relative path each one names
Unquote ==
    [a |-> <<"a">>, b |-> <<"b">>, c |-> <<"c">>, missing |-> <<"missing">>,
     libf |-> <<"lib", "f">>, g |-> <<"g">>]

Quoted == DOMAIN Unquote

\* the words matching \w+
Idents == {"f", "g", "h"}

\* importRegex: ^\s*import\s+"([^"]+)"\s*$
IsImport(line) == Len(line) = 2 /\ line[1] = "import" /\ line[2] \in Quoted

\* includeRegex: ^\s*include\s+"([^"]+)"\s*$
IsInclude(line) == Len(line) = 2 /\ line[1] = "include" /\ line[2] \in Quoted

\* defRegex: ^\s*def\s+(\w+), anything may follow
IsDef(line) == Len(line) >= 2 /\ line[1] = "def" /\ line[2] \in Idents

\* edefRegex: ^\s*edef\s*$
IsEdef(line) == line = <<"edef">>

Imp(q) == <<"import", q>>
Inc(q) == <<"include", q>>
Def(f) == <<"def", f, "X", "Y">>
Edef == <<"edef">>
TextLine == <<"text", "hello", "50", "50", "2">>

\* filepath.Dir and filepath.Join on relative paths
Dir(path) == SubSeq(path, 1, Len(path) - 1)

resolvePath(filePath, sourcePath) == Dir(sourcePath) \o filePath

NoDef == [def |-> <<>>, name |-> "", err |-> ""]

\* extractFunctionDef's scan from line k on
RECURSIVE ExtractFrom(_, _, _, _, _)
ExtractFrom(source, k, inDef, funcName, defBlock) ==
    IF k > Len(source)
    THEN IF inDef THEN [NoDef EXCEPT !.err = "unclosed def block"]
         ELSE IF funcName = "" THEN [NoDef EXCEPT !.err = "no function definition found"]
         ELSE [def |-> defBlock, name |-> funcName, err |-> ""]
    ELSE LET line == source[k]
         IN  IF IsDef(line)
             THEN IF inDef THEN [NoDef EXCEPT !.err = "nested def blocks not supported"]
                  ELSE ExtractFrom(source, k + 1, TRUE, line[2], defBlock \o <<line>>)
             ELSE IF IsEdef(line)
             THEN IF ~inDef THEN [NoDef EXCEPT !.err = "edef without matching def"]
                  ELSE [def |-> defBlock \o <<line>>, name |-> funcName, err |-> ""]
             ELSE ExtractFrom(source, k + 1, inDef, funcName,
                              IF inDef THEN defBlock \o <<line>> ELSE defBlock)

extractFunctionDef(source) == ExtractFrom(source, 1, FALSE, "", <<>>)

\* line 86, negated, without the map: every import is inlined
Exists_never(funcName, funcDefs) == FALSE

\* line 86: _, exists := r.funcDefs[funcName]
Exists(funcName, funcDefs) == funcName \in DOMAIN funcDefs

\* the comment lines Expand writes
ImportedFrom(q) == <<"// Function imported from:", q>>
BeginInclude(q) == <<"// BEGIN INCLUDE:", q>>
EndInclude(q) == <<"// END INCLUDE:", q>>

\* the files the Loader serves
FileA == {<<Def("f"), TextLine, Edef>>,
          <<Def("h"), Imp("a"), Edef>>,
          <<Def("f"), TextLine>>}
FileB == {<<TextLine, Def("f"), Edef, Def("g"), Edef>>,
          <<Def("g"), TextLine, Edef>>,
          <<TextLine, Imp("a")>>,
          <<Inc("c"), Imp("a")>>}
FileC == {<<TextLine>>, <<Inc("c")>>, <<Imp("b"), Def("f"), Edef>>}
FileLibF == {<<Inc("g")>>}
FileLibG == {<<Edef>>, <<Def("g"), Def("f"), Edef>>}

Files ==
    {(<<"a">> :> fa) @@ (<<"b">> :> fb) @@ (<<"c">> :> fc) @@ (<<"lib", "f">> :> lf)
       @@ (<<"lib", "g">> :> lg) :
       fa \in FileA, fb \in FileB, fc \in FileC, lf \in FileLibF, lg \in FileLibG}

SourceLines ==
    {Imp("a"), Imp("b"), Inc("b"), Inc("c"), Inc("libf"), Imp("missing"), TextLine,
     <<"import", "a", "extra">>}

Sources ==
    {<<l>> : l \in SourceLines} \cup {<<l1, l2>> : l1, l2 \in SourceLines}
    \cup {<<Imp("a"), Inc("b"), Imp("a")>>, <<Inc("b"), Inc("b"), Imp("b")>>}

NoReturn == [done |-> FALSE, out |-> <<>>, err |-> ""]

\* NewImportResolver, with a Loader over the files
InitImports ==
    /\ deck = NoDeck
    /\ fontmap = NoFonts
    /\ pc = "imports"
    /\ caller = ""
    /\ d = NoDeck
    /\ n = 0
    /\ slide = NoSlide
    /\ li = 1
    /\ ei = 1
    /\ calls = <<>>
    /\ err = ""
    /\ result = NoResult
    /\ pi = 0
    /\ fin = <<>>
    /\ fout = <<>>
    /\ procs = <<>>
    /\ queue = <<>>
    /\ cache = <<>>
    /\ resolver \in {[files |-> fs, source |-> src, funcDefs |-> <<>>, stack |-> <<>>,
                      ret |-> NoReturn, expands |-> 0] : fs \in Files, src \in Sources}

ImportsFrame ==
    UNCHANGED <<deck, fontmap, pc, caller, d, n, slide, li, ei, calls, err, result, pi,
                fin, fout, procs, queue, cache>>

\* an activation of Expand: its source, the scanner's position, its path, its
\* result buffer and the quoted name it was included by
Activation(source, path, q) ==
    [lines |-> source, k |-> 1, path |-> path, out |-> <<>>, inc |-> q]

Top == resolver.stack[Len(resolver.stack)]

AtLine == resolver.stack # <<>> /\ Top.k <= Len(Top.lines)

\* an error return, handed up through every activation
Fail(msg) ==
    resolver' = [resolver EXCEPT !.stack = <<>>,
                                 !.ret = [done |-> TRUE, out |-> <<>>, err |-> msg]]

\* the top activation goes on to its next line with out as its buffer
Continue(out) ==
    resolver' = [resolver EXCEPT !.stack[Len(resolver.stack)] =
                                    [@ EXCEPT !.k = @ + 1, !.out = out]]

\* a caller calls r.Expand(ctx, source, "main")
Expand ==
    /\ pc = "imports"
    /\ resolver.stack = <<>>
    /\ resolver.expands < MaxExpands
    /\ resolver' = [resolver EXCEPT !.stack = <<Activation(resolver.source, <<"main">>, "")>>,
                                    !.ret = NoReturn,
                                    !.expands = @ + 1]
    /\ ImportsFrame

\* lines 69-95
ExpandImport ==
    /\ pc = "imports"
    /\ AtLine
    /\ IsImport(Top.lines[Top.k])
    /\ LET q == Top.lines[Top.k][2]
           resolvedPath == resolvePath(Unquote[q], Top.path)
       IN  IF resolvedPath \notin DOMAIN resolver.files
           THEN Fail("failed to load import")
           ELSE LET ex == extractFunctionDef(resolver.files[resolvedPath])
                IN  IF ex.err # ""
                    THEN Fail("failed to extract function")
                    ELSE IF ~Exists(ex.name, resolver.funcDefs)
                    THEN resolver' =
                           [resolver EXCEPT
                              !.funcDefs = (ex.name :> ex.def) @@ @,
                              !.stack[Len(resolver.stack)] =
                                 [@ EXCEPT !.k = @ + 1,
                                           !.out = @ \o <<ImportedFrom(q)>> \o ex.def]]
                    ELSE Continue(Top.out)
    /\ ImportsFrame

\* the paths of the files being expanded
OnStack == {resolver.stack[k].path : k \in 1..Len(resolver.stack)}

\* lines 98-109: the included file is loaded and Expand is called on it.  An
\* include of a file that is being expanded starts the same expansion again,
\* without end; the model follows it for MaxDepth activations, and then the
\* goroutine has run out of stack: the program ends, Expand returns nothing.
ExpandInclude ==
    /\ pc = "imports"
    /\ AtLine
    /\ ~IsImport(Top.lines[Top.k])
    /\ IsInclude(Top.lines[Top.k])
    /\ LET q == Top.lines[Top.k][2]
           resolvedPath == resolvePath(Unquote[q], Top.path)
       IN  IF resolvedPath \notin DOMAIN resolver.files
           THEN Fail("failed to load include") /\ pc' = pc
           ELSE IF Len(resolver.stack) >= MaxDepth /\ resolvedPath \in OnStack
           THEN pc' = "overflow" /\ resolver' = resolver
           ELSE /\ resolver' = [resolver EXCEPT !.stack =
                                  Append(@, Activation(resolver.files[resolvedPath],
                                                       resolvedPath, q))]
                /\ pc' = pc
    /\ UNCHANGED <<deck, fontmap, caller, d, n, slide, li, ei, calls, err, result, pi,
                   fin, fout, procs, queue, cache>>

\* lines 121-123
ExpandCopy ==
    /\ pc = "imports"
    /\ AtLine
    /\ ~IsImport(Top.lines[Top.k])
    /\ ~IsInclude(Top.lines[Top.k])
    /\ Continue(Append(Top.out, Top.lines[Top.k]))
    /\ ImportsFrame

\* line 130, and lines 114-118 in the activation that called
ExpandReturn ==
    /\ pc = "imports"
    /\ resolver.stack # <<>>
    /\ Top.k > Len(Top.lines)
    /\ LET depth == Len(resolver.stack)
       IN  IF depth = 1
           THEN resolver' = [resolver EXCEPT !.stack = <<>>,
                                             !.ret = [done |-> TRUE, out |-> Top.out,
                                                      err |-> ""]]
           ELSE resolver' =
                  [resolver EXCEPT !.stack =
                     [SubSeq(@, 1, depth - 1) EXCEPT ![depth - 1] =
                        [@ EXCEPT !.k = @ + 1,
                                  !.out = @ \o <<BeginInclude(Top.inc)>> \o Top.out
                                            \o <<EndInclude(Top.inc)>>]]]
    /\ ImportsFrame

NextImports ==
    \/ Expand
    \/ ExpandImport
    \/ ExpandInclude
    \/ ExpandCopy
    \/ ExpandReturn

SpecImports == InitImports /\ [][NextImports]_vars

\* a call of Expand that can take a step takes it
SpecImportsLive ==
    /\ InitImports
    /\ [][NextImports]_vars
    /\ WF_vars(ExpandImport \/ ExpandInclude \/ ExpandCopy \/ ExpandReturn)

----------------------------------------------------------------------------
(* C16 *)

\* everything written so far by the running Expand call, in output order, or
\* the output of the call that has returned
Written ==
    IF resolver.ret.done THEN resolver.ret.out
    ELSE Flatten([k \in 1..Len(resolver.stack) |-> resolver.stack[k].out])

\* the places of the output where the def block of f is inlined by an import
InlinedAt(out, f) ==
    {i \in 1..(Len(out) - 1) :
        /\ \E q \in Quoted : out[i] = ImportedFrom(q)
        /\ IsDef(out[i + 1])
        /\ out[i + 1][2] = f}

\* C16: within one ImportResolver, for any sequence of import statements
\* (repeated in one source or reached through nested includes), the def/edef
\* block of each function name is inlined at most once in the expanded output.
C16_InlinedOnce ==
    resolver # <<>> => \A f \in Idents : Cardinality(InlinedAt(Written, f)) <= 1

\* a source that imports f, includes a file that imports f again, and imports
\* f a third time: expanded with f inlined once
C16_Witness ==
    /\ resolver # <<>>
    /\ resolver.ret.done
    /\ resolver.ret.err = ""
    /\ resolver.source = <<Imp("a"), Inc("b"), Imp("a")>>
    /\ resolver.files[<<"b">>] = <<TextLine, Imp("a")>>
    /\ Cardinality(InlinedAt(resolver.ret.out, "f")) = 1

----------------------------------------------------------------------------
(* C17 *)

\* C17: when Expand succeeds, its output contains no import statement line
\* and no include statement line, for any set of loaded files.
C17_NoImportLeft ==
    (resolver # <<>> /\ resolver.ret.done /\ resolver.ret.err = "") =>
       \A i \in 1..Len(resolver.ret.out) :
          ~IsImport(resolver.ret.out[i]) /\ ~IsInclude(resolver.ret.out[i])


----------------------------------------------------------------------------
(* C18 *)

\* the calls that open a slide: the viewport, the background, the gradient
HeadCalls(sl) ==
    Tag(<<[op |-> "Startview", a |-> <<W, H, R(0), R(0), W, H>>]>>, "view", 0)
    \o (IF sl.Bg # NoColor THEN Tag(background(W, H, sl.Bg), "bg", 0) ELSE <<>>)
    \o Tag(GradientCalls(sl, W, H), "grad", 0)

\* the calls for the entries of slide sl from entry k of category x on
RECURSIVE BodyFrom(_, _, _)
BodyFrom(sl, x, k) ==
    IF x > Len(Categories) THEN {<<>>}
    ELSE IF k > Len(LayerEntries(sl, Categories[x])) THEN BodyFrom(sl, x + 1, 1)
    ELSE {Tag(e, Categories[x], k) \o rest :
             e \in EntryCalls(sl, Categories[x], k), rest \in BodyFrom(sl, x, k + 1)}

\* the renderings of slide sl
Renderings(sl) ==
    {HeadCalls(sl) \o b \o Tag(<<[op |-> "End"]>>, "end", 0) : b \in BodyFrom(sl, 1, 1)}

\* Process has returned a result
Processed == caller = "Process" /\ pc = "idle" /\ err = ""

\* with SVG and a deck that parses, the result's SlideCount is the number of
\* entries of Slides and the number of slides of the deck, and Slides[i] is
\* the rendering of slide i; a call that returns an error returns no result
C18_Result ==
    caller = "Process" =>
       /\ Processed =>
             /\ result.Format = "svg"
             /\ result.SlideCount = Len(result.Slides)
             /\ result.SlideCount = Len(deck.Slide)
             /\ \A i \in 1..Len(result.Slides) : result.Slides[i] \in Renderings(d.Slide[i])
       /\ err # "" => (pc = "idle" /\ result = NoResult /\ calls = <<>>)

\* a call with a format other than SVG returns at once, with an error, no
\* result and no slide rendered
C18_Format ==
    \A format \in {"svg", "png"}, parse \in {"ok", "decksh processing failed"} :
       (Process(format, parse) /\ format # "svg") =>
          (err' # "" /\ pc' = "idle" /\ result' = NoResult /\ calls' = <<>>)

\* C18: Process with any format other than SVG returns an error and no result
\* without rendering any slide; with SVG and a deck that parses, it returns a
\* result whose SlideCount equals the number of entries in Slides and the
\* number of slides in the deck, with Slides[i] the rendering of slide i.
C18_Process == []C18_Result /\ [][C18_Format]_vars

\* a deck of two different slides processed: two different renderings
C18_Witness ==
    /\ Processed
    /\ result.SlideCount = 2
    /\ Len(result.Slides) = 2
    /\ d.Slide[1] # d.Slide[2]
    /\ result.Slides[1] # result.Slides[2]
    /\ Len(result.Slides[2]) > 2


----------------------------------------------------------------------------
(* C19 *)

\* the height of a rectangle or ellipse entry e: hr% of its width wp% of W
\* when hr is set, hp% of H otherwise
HeightOf(e) ==
    IF e.Hr # R(0)
    THEN Rat(e.Hr.n * e.Wp.n * W.n, 10000 * e.Hr.d * e.Wp.d * W.d)
    ELSE Rat(e.Hp.n * H.n, 100 * e.Hp.d * H.d)

\* C19: for every rectangle and ellipse entry, when the height ratio hr is
\* non-zero the emitted height is hr% of the computed width regardless of hp;
\* when hr is zero the emitted height is hp% of the canvas height.  (An
\* ellipse is emitted by its radii: its height is twice the vertical radius.)
C19_HeightRatio ==
    \A p \in 1..Len(calls) :
       /\ calls[p].layer = "rect" => calls[p].a[4] = HeightOf(Src.Rect[calls[p].idx])
       /\ calls[p].layer = "ellipse" =>
             FMul(R(2), calls[p].a[4]) = HeightOf(Src.Ellipse[calls[p].idx])

\* on a canvas of 1000 x 1000: a rectangle with wp 40, hp 10, hr 50 emitted
\* 200 high, or an ellipse with wp 10, hp 40, hr 25 emitted with radius 12.5
C19_Witness ==
    /\ W = R(1000)
    /\ \E p \in 1..Len(calls) :
          \/ /\ calls[p].layer = "ellipse"
             /\ Src.Ellipse[calls[p].idx].Hr = R(25)
             /\ Src.Ellipse[calls[p].idx].Hp = R(40)
             /\ calls[p].a[4] = Rat(25, 2)
          \/ /\ calls[p].layer = "rect"
             /\ Src.Rect[calls[p].idx].Hr = R(50)
             /\ Src.Rect[calls[p].idx].Hp = R(10)
             /\ calls[p].a[4] = R(200)

----------------------------------------------------------------------------
(* C20 *)

\* pct(sp, W) of a line, curve or arc entry
ComputedWidth(e) == Rat(e.Sp.n * W.n, 100 * e.Sp.d * W.d)

StrokeCalls == {p \in 1..Len(calls) : calls[p].layer \in StrokeShapes}

EntryOf(p) == LayerEntries(Src, calls[p].layer)[calls[p].idx]

\* C20 as stated: the emitted stroke width is pct(sp, W) when that value is
\* non-zero and exactly 2.0 when it is exactly zero; no line, curve or arc is
\* ever emitted with stroke width 0.
C20_ExactStroke ==
    \A p \in StrokeCalls :
       /\ calls[p].st.strokewidth =
             (IF ComputedWidth(EntryOf(p)) # R(0) THEN ComputedWidth(EntryOf(p)) ELSE R(2))
       /\ calls[p].st.strokewidth # R(0)

\* C20 (amended): the emitted stroke width is pct(sp, W) when that value is
\* non-zero and 2.0 when it is exactly zero, rounded to two decimal places as
\* "%.2fpx" prints it; a stroke width of 0 is emitted only for a non-zero
\* pct(sp, W) of at most 0.005 in absolute value.
C20_RoundedStroke ==
    \A p \in StrokeCalls :
       LET cwd == ComputedWidth(EntryOf(p))
           sw == IF cwd # R(0) THEN cwd ELSE R(2)
           out == calls[p].st.strokewidth
       IN  /\ 100 % out.d = 0
           /\ FLe(FAbs(FSub(out, sw)), Rat(1, 200))
           /\ out = R(0) => (cwd # R(0) /\ FLe(FAbs(cwd), Rat(1, 200)))

\* a line with sp = 0 emitted with stroke width 2
C20_Witness ==
    \E p \in StrokeCalls :
       /\ calls[p].layer = "line"
       /\ EntryOf(p).Sp = R(0)
       /\ calls[p].st.strokewidth = R(2)


----------------------------------------------------------------------------
(* C21 *)

\* the literal line-break marker of block text: the two characters \ and n
Marker == <<"\\", "n">>

\* the text a run draws: its file content when it has one, its tdata otherwise
SourceText(t) == IF t.File # <<>> THEN t.File ELSE t.Tdata

\* the words of a run that are not markers, in order, each with the number of
\* markers that precede it in the source text
SourceWords(t) ==
    LET ws == Fields(SourceText(t))
        tagged == [i \in 1..Len(ws) |->
                     [w |-> ws[i], seg |-> Cardinality({j \in 1..i : ws[j] = Marker})]]
    IN  SelectSeq(tagged, LAMBDA q : q.w # Marker)

\* the number of words on the lines before line j
RECURSIVE WordsBefore(_, _)
WordsBefore(ls, j) ==
    IF j <= 1 THEN 0 ELSE WordsBefore(ls, j - 1) + Len(Fields(ls[j - 1].txt))

\* the marker itself is never emitted as (part of) a line
MarkerNotEmitted(k) ==
    \A j \in 1..Len(LinesOf(k)) :
       \A i \in 1..Len(Fields(LinesOf(k)[j].txt)) : Fields(LinesOf(k)[j].txt)[i] # Marker

\* no line holds words from both sides of a marker
MarkerBreaks(k) ==
    LET ls == LinesOf(k)
        sw == SourceWords(Src.Text[k])
    IN  \A j \in 1..Len(ls) :
           LET first == WordsBefore(ls, j) + 1
               last == WordsBefore(ls, j + 1)
           IN  \A a, b \in first..last :
                  (a <= Len(sw) /\ b <= Len(sw)) => sw[a].seg = sw[b].seg

\* C21: in block mode a literal line-break marker token forces a line break:
\* no emitted draw-text line contains both a word that precedes the marker and
\* a word that follows it in the source text, and the marker itself is never
\* emitted as text.
C21_MarkerBreak ==
    calls # <<>> =>
       \A k \in 1..Len(Src.Text) :
          (Src.Text[k].Type = "block" /\ LinesOf(k) # <<>>) =>
             MarkerBreaks(k) /\ MarkerNotEmitted(k)

\* the part that holds: the marker is dropped from the emitted lines, and the
\* emitted lines hold exactly the other words of the run, in order
C21_MarkerDropped ==
    calls # <<>> =>
       \A k \in 1..Len(Src.Text) :
          (Src.Text[k].Type = "block" /\ LinesOf(k) # <<>>) =>
             /\ MarkerNotEmitted(k)
             /\ WordsBefore(LinesOf(k), Len(LinesOf(k)) + 1) = Len(SourceWords(Src.Text[k]))


----------------------------------------------------------------------------
(* C22 *)

\* the calls of list k, in order
ListCalls(k) == SelectSeq(calls, LAMBDA c : c.layer = "list" /\ c.idx = k)

\* the draw-text calls of list k, one per item, in order
ItemCalls(k) == SelectSeq(ListCalls(k), LAMBDA c : c.op = "Text")

\* the style an item is drawn with: what its own style attribute sets, and the
\* style of the enclosing list group for every property it leaves out
DrawnStyle(k, i) == ItemCalls(k)[i].st @@ ListCalls(k)[1].st

\* the list-level colour and font, as svgslide and dolist default them
ListColour(l) == svgcolor(IF l.Color = NoColor THEN Foreground ELSE l.Color)
ListFont(l) == fontlookup(fontmap, IF l.Font = "" THEN "sans" ELSE l.Font)

ItemColourFont(k) ==
    \A i \in 1..Len(Src.List[k].Li) :
       LET it == Src.List[k].Li[i]
       IN  /\ DrawnStyle(k, i).fill =
                 (IF it.Color # NoColor THEN it.Color ELSE ListColour(Src.List[k]))
           /\ DrawnStyle(k, i).fontfamily =
                 (IF it.Font # "" THEN it.Font ELSE ListFont(Src.List[k]))

ItemOpacity(k) ==
    \A i \in 1..Len(Src.List[k].Li) :
       LET it == Src.List[k].Li[i]
       IN  DrawnStyle(k, i).fillopacity =
              Round2(setop(IF it.Opacity # R(0) THEN it.Opacity ELSE Src.List[k].Opacity))

\* C22: each list item may override colour, font and opacity independently: an
\* item's style overrides only the attributes that the item itself sets, so an
\* item that sets no colour, no font and no opacity is drawn with the
\* list-level colour, font and opacity.
C22_ItemOverrides ==
    calls # <<>> =>
       \A k \in 1..Len(Src.List) :
          ListCalls(k) # <<>> => (ItemColourFont(k) /\ ItemOpacity(k))

\* the part that holds: colour and font are overridden only when the item sets them
C22_ColourFontOverrides ==
    calls # <<>> =>
       \A k \in 1..Len(Src.List) : ListCalls(k) # <<>> => ItemColourFont(k)


----------------------------------------------------------------------------
(* C23 *)

\* a call without the marks of the step that made it
Untag(c) == [f \in DOMAIN c \ {"layer", "idx"} |-> c[f]]

\* the calls of text run k, in order
TextCalls(k) ==
    LET cs == SelectSeq(calls, LAMBDA c : c.layer = "text" /\ c.idx = k)
    IN  [i \in 1..Len(cs) |-> Untag(cs[i])]

\* the calls the same run makes when its rotation is 0
Unrotated(k) ==
    DrawTextEntry(fontmap, Foreground, W, H, [Src.Text[k] EXCEPT !.Rotation = R(0)])

\* the anchor (x, y) of text run k
Anchor(k) == dimen(W, H, Src.Text[k].Xp, Src.Text[k].Yp, Src.Text[k].Sp)

\* C23: for a text run with rotation > 0 a rotate-and-translate group about
\* the run's anchor (x, y) is opened before the run's first drawing call and
\* closed after its last; with rotation <= 0 no rotation group is emitted; in
\* both cases the run's other drawing calls (coordinates, strings, styles) are
\* identical to those emitted with rotation 0.
C23_RotationGroup ==
    calls # <<>> =>
       \A k \in 1..Len(Src.Text) :
          TextCalls(k) # <<>> =>
             IF FGt(Src.Text[k].Rotation, R(0))
             THEN TextCalls(k) =
                     <<[op |-> "RotateTranslate",
                        a |-> <<Anchor(k)[1], Anchor(k)[2], Src.Text[k].Rotation>>]>>
                     \o Unrotated(k) \o <<[op |-> "Gend"]>>
             ELSE /\ TextCalls(k) = Unrotated(k)
                  /\ \A i \in 1..Len(TextCalls(k)) : TextCalls(k)[i].op # "RotateTranslate"

\* a slide drawn to its end with a run rotated by 90 inside its group of at
\* least four calls, or with a run of rotation -45 drawn as three plain lines
C23_Witness ==
    /\ Finished
    /\ \E k \in 1..Len(Src.Text) :
          \/ /\ Src.Text[k].Rotation = R(90)
             /\ Len(TextCalls(k)) >= 4
             /\ TextCalls(k)[1].op = "RotateTranslate"
             /\ TextCalls(k)[Len(TextCalls(k))].op = "Gend"
          \/ /\ Src.Text[k].Rotation = R(-45)
             /\ Len(TextCalls(k)) = 3
             /\ \A i \in 1..3 : TextCalls(k)[i].op = "Text"


----------------------------------------------------------------------------
(* C24 *)

\* a run that is neither wrapped (block) nor code
Plain(t) == t.Type # "block" /\ t.Type # "code"

\* the line-spacing multiplier of a run: its own value, 1.4 when it has none
Multiplier(t) == IF t.Lp = R(0) THEN Rat(14, 10) ELSE t.Lp

\* the font size of a run: sp% of the canvas width
FontSize(t) == Rat(t.Sp.n * W.n, 100 * t.Sp.d * W.d)

\* C24: in plain mode a text run with n lines (split on embedded line breaks)
\* emits exactly n draw-text calls in source order, the k-th (from 0) at
\* (x, y + k x multiplier x fontSize), where the multiplier is the run's
\* line-spacing value or the default 1.4 when the run supplies none (0).
C24_PlainLines ==
    calls # <<>> =>
       \A k \in 1..Len(Src.Text) :
          (Plain(Src.Text[k]) /\ TextCalls(k) # <<>>) =>
             LET t == Src.Text[k]
                 td == Split(SourceText(t), "\n")
                 ls == LinesOf(k)
             IN  /\ Len(ls) = Len(td)
                 /\ \A j \in 1..Len(ls) :
                       /\ ls[j].txt = td[j]
                       /\ ls[j].a[1] = Anchor(k)[1]
                       /\ ls[j].a[2] =
                             FAdd(Anchor(k)[2],
                                  FMul(R(j - 1), FMul(Multiplier(t), FontSize(t))))

\* on a canvas 1000 wide: the run "a" / "b" of font size 20 without a line
\* spacing has its second line 28 below the first, and the run "up" / "dn" /
\* "z" of font size 40 with line spacing 1.5 has its third line 120 below
C24_Witness ==
    /\ Finished
    /\ W = R(1000)
    /\ \E k \in 1..Len(Src.Text) :
          /\ Plain(Src.Text[k])
          /\ \/ /\ Src.Text[k].Lp = R(0)
                /\ Len(LinesOf(k)) = 2
                /\ LinesOf(k)[2].txt = <<"b">>
                /\ LinesOf(k)[2].a[2] = FAdd(Anchor(k)[2], R(28))
             \/ /\ Src.Text[k].Lp = Rat(3, 2)
                /\ Len(LinesOf(k)) = 3
                /\ LinesOf(k)[3].txt = <<"z">>
                /\ LinesOf(k)[3].a[2] = FAdd(Anchor(k)[2], R(120))


----------------------------------------------------------------------------
(* C25 *)

\* the calls of text run k that are not its rotation group
RunCalls(k) ==
    SelectSeq(TextCalls(k), LAMBDA c : c.op # "RotateTranslate" /\ c.op # "Gend")

\* the shape of a code run's calls: one background rectangle first, of width
\* W - x - 20 and height lines x line spacing, then one line per source line,
\* each in the mono font
CodeBlock(k) ==
    LET t == Src.Text[k]
        cs == RunCalls(k)
        td == Split(SourceText(t), "\n")
    IN  /\ Len(cs) = Len(td) + 1
        /\ cs[1].op = "Rect"
        /\ cs[1].a[3] = FSub(FSub(W, Anchor(k)[1]), R(20))
        /\ cs[1].a[4] = FMul(R(Len(td)), FMul(Multiplier(t), FontSize(t)))
        /\ \A j \in 2..Len(cs) :
              /\ cs[j].op = "Text"
              /\ cs[j].st.fontfamily = fontlookup(fontmap, "mono")

CodeRun(k) == Src.Text[k].Type = "code" /\ TextCalls(k) # <<>>

----------------------------------------------------------------------------
(* C26 *)

\* the calls of list k between the opening of its style group and its close
ListBody(k) ==
    LET cs == ListCalls(k)
    IN  [i \in 1..(Len(cs) - 2) |-> Untag(cs[i + 1])]

\* "1. ", "2. ", "3. "
Numeral == <<"1", "2", "3">>
NumberPrefix(i) == <<Numeral[i], ".", " ">>

\* x, y and font size of list k
ListAnchor(k) == dimen(W, H, Src.List[k].Xp, Src.List[k].Yp, Src.List[k].Sp)

\* the spacing multiplier of a list: its own value, 2.0 when it has none
ListSpacing(l) == IF l.Lp = R(0) THEN R(2) ELSE l.Lp

\* the row of item i of list k
ItemY(k, i) ==
    FAdd(ListAnchor(k)[2],
         FMul(R(i - 1), FMul(ListSpacing(Src.List[k]), ListAnchor(k)[3])))

\* C26: for a list of n items: in a numbered list the i-th item (1-based) is
\* drawn with its text prefixed by "i. " and no marker is drawn; in a bullet
\* list exactly one bullet marker is drawn immediately before each item's text
\* and no prefix is added; for any other list type neither a prefix nor a
\* marker is emitted; items are drawn in list order, each advanced by
\* spacing x fontSize.
C26_ListItems ==
    calls # <<>> =>
       \A k \in 1..Len(Src.List) :
          ListCalls(k) # <<>> =>
             LET l == Src.List[k]
                 lb == ListBody(k)
                 nitems == Len(l.Li)
                 fs == ListAnchor(k)[3]
             IN  IF l.Type = "bullet"
                 THEN /\ Len(lb) = 2 * nitems
                      /\ \A i \in 1..nitems :
                            /\ lb[2 * i - 1].op = "Circle"
                            /\ lb[2 * i - 1].a =
                                  <<ListAnchor(k)[1],
                                    FSub(ItemY(k, i), FDiv(fs, R(3))), FDiv(fs, R(4))>>
                            /\ lb[2 * i].op = "Text"
                            /\ lb[2 * i].txt = l.Li[i].ListText
                            /\ lb[2 * i].a = <<FAdd(ListAnchor(k)[1], fs), ItemY(k, i)>>
                 ELSE /\ Len(lb) = nitems
                      /\ \A i \in 1..nitems :
                            /\ lb[i].op = "Text"
                            /\ lb[i].txt = (IF l.Type = "number"
                                            THEN NumberPrefix(i) \o l.Li[i].ListText
                                            ELSE l.Li[i].ListText)
                            /\ lb[i].a = <<ListAnchor(k)[1], ItemY(k, i)>>

\* a slide drawn to its end with the numbered list x, yy, z: the third item is
\* drawn as "3. z"; or with the bullet list one, two: marker, "one", marker, "two"
C26_Witness ==
    /\ Finished
    /\ \E k \in 1..Len(Src.List) :
          \/ /\ Src.List[k].Type = "number"
             /\ Len(ListBody(k)) = 3
             /\ ListBody(k)[3].txt = <<"3", ".", " ", "z">>
          \/ /\ Src.List[k].Type = "bullet"
             /\ Len(ListBody(k)) = 4
             /\ ListBody(k)[3].op = "Circle"
             /\ ListBody(k)[4].txt = <<"t", "w", "o">>


----------------------------------------------------------------------------
(* consumeQueue (cmd/cloudflare, the variant with import expansion)         *)
(* A message is what its body holds; what storage, the resolver and the     *)
(* pipeline answer is chosen when the call is made.                         *)

MaxBatch == 2
MaxSlides == 2

\* strings.HasSuffix
HasSuffix(str, suffix) ==
    /\ Len(str) >= Len(suffix)
    /\ SubSeq(str, Len(str) - Len(suffix) + 1, Len(str)) = suffix

DotDsh == <<".", "d", "s", "h">>

\* object keys of the events: "a.dsh", "a.txt", ".dsh" and a missing key
Keys == { <<"a", ".", "d", "s", "h">>, <<"a", ".", "t", "x", "t">>, DotDsh, <<>> }

\* a message: a body that cannot be read, one that is not JSON, or an event
Messages ==
    {[body |-> "unreadable", key |-> <<>>], [body |-> "garbage", key |-> <<>>]}
    \cup {[body |-> "event", key |-> k] : k \in Keys}

\* what one message met: nothing yet
Fresh ==
    [settle |-> <<>>, status |-> "", bodyErr |-> FALSE, decodeErr |-> FALSE,
     dsh |-> FALSE, getErr |-> FALSE, readErr |-> FALSE, expandErr |-> FALSE,
     processErr |-> FALSE, rendered |-> FALSE, slides |-> 0, put |-> <<>>,
     manifest |-> "none"]

InitQueue ==
    /\ deck = NoDeck
    /\ fontmap = NoFonts
    /\ pc = "queue"
    /\ caller = ""
    /\ d = NoDeck
    /\ n = 0
    /\ slide = NoSlide
    /\ li = 1
    /\ ei = 1
    /\ calls = <<>>
    /\ err = ""
    /\ result = NoResult
    /\ pi = 0
    /\ fin = <<>>
    /\ fout = <<>>
    /\ procs = <<>>
    /\ resolver = <<>>
    /\ cache = <<>>
    /\ queue \in {[msgs |-> ms, i |-> 1, at |-> "loop", si |-> 0,
                   met |-> [k \in 1..Len(ms) |-> Fresh]] :
                     ms \in UNION {[1..len -> Messages] : len \in 0..MaxBatch}}

QueueFrame ==
    UNCHANGED <<deck, fontmap, pc, caller, d, n, slide, li, ei, calls, err, result, pi,
                fin, fout, procs, resolver, cache>>

QAt(at) == pc = "queue" /\ queue.at = at /\ queue.i <= Len(queue.msgs)

\* msg.Ack() / msg.Retry() and `continue`, or falling off the loop body
Settle(q, how) ==
    [q EXCEPT !.met[q.i].settle = Append(@, how), !.i = @ + 1, !.at = "loop"]

\* lines 119-124
QBytesBody ==
    /\ QAt("loop")
    /\ queue' = IF queue.msgs[queue.i].body = "unreadable"
                THEN Settle([queue EXCEPT !.met[queue.i].bodyErr = TRUE], "Retry")
                ELSE [queue EXCEPT !.at = "decode"]
    /\ QueueFrame

\* lines 126-135
QUnmarshal ==
    /\ QAt("decode")
    /\ queue' = IF queue.msgs[queue.i].body = "garbage"
                THEN Settle([queue EXCEPT !.met[queue.i].decodeErr = TRUE], "Retry")
                ELSE [queue EXCEPT !.at = "suffix"]
    /\ QueueFrame

\* lines 137-145
QSuffix ==
    /\ QAt("suffix")
    /\ queue' = IF ~HasSuffix(queue.msgs[queue.i].key, DotDsh)
                THEN Settle(queue, "Ack")
                ELSE [queue EXCEPT !.met[queue.i].dsh = TRUE,
                                   !.met[queue.i].status = "processing", !.at = "get"]
    /\ QueueFrame

\* lines 148-153: runtime.Input().Get
QGet(found) ==
    /\ QAt("get")
    /\ queue' = IF ~found
                THEN Settle([queue EXCEPT !.met[queue.i].getErr = TRUE,
                                          !.met[queue.i].status = "error"], "Retry")
                ELSE [queue EXCEPT !.at = "read"]
    /\ QueueFrame

\* lines 154-155: `source, _ := io.ReadAll(reader)`, the error is dropped
QReadAll(complete) ==
    /\ QAt("read")
    /\ queue' = [queue EXCEPT !.met[queue.i].readErr = ~complete, !.at = "expand"]
    /\ QueueFrame

\* lines 158-175: HasImports and resolver.Expand
QExpand(hasImports, expanded) ==
    /\ QAt("expand")
    /\ queue' = IF hasImports /\ ~expanded
                THEN Settle([queue EXCEPT !.met[queue.i].expandErr = TRUE,
                                          !.met[queue.i].status = "error"], "Ack")
                ELSE [queue EXCEPT !.at = "process"]
    /\ QueueFrame

\* lines 178-187: p.Process; nslides is len(result.Slides)
QProcess(ok, nslides) ==
    /\ QAt("process")
    /\ queue' = IF ~ok
                THEN Settle([queue EXCEPT !.met[queue.i].processErr = TRUE,
                                          !.met[queue.i].status = "error"], "Ack")
                ELSE [queue EXCEPT !.met[queue.i].rendered = TRUE,
                                   !.met[queue.i].slides = nslides,
                                   !.si = 0, !.at = "slides"]
    /\ QueueFrame

\* lines 188-191: one round of the loop over result.Slides; Put's error is dropped
QPutSlide(stored) ==
    /\ QAt("slides")
    /\ queue.si < queue.met[queue.i].slides
    /\ queue' = [queue EXCEPT !.met[queue.i].put = Append(@, stored), !.si = @ + 1]
    /\ QueueFrame

\* lines 193-206: the manifest's Put, whose error is dropped, setStatus and Ack
QPutManifest(stored) ==
    /\ QAt("slides")
    /\ queue.si = queue.met[queue.i].slides
    /\ queue' = Settle([queue EXCEPT !.met[queue.i].manifest =
                                         IF stored THEN "stored" ELSE "failed",
                                     !.met[queue.i].status = "complete"], "Ack")
    /\ QueueFrame

\* line 208
QReturn ==
    /\ pc = "queue"
    /\ queue.at = "loop"
    /\ queue.i > Len(queue.msgs)
    /\ queue' = [queue EXCEPT !.at = "returned"]
    /\ QueueFrame

NextQueue ==
    \/ QBytesBody
    \/ QUnmarshal
    \/ QSuffix
    \/ \E found \in BOOLEAN : QGet(found)
    \/ \E complete \in BOOLEAN : QReadAll(complete)
    \/ \E hasImports \in BOOLEAN, expanded \in BOOLEAN : QExpand(hasImports, expanded)
    \/ \E ok \in BOOLEAN, nslides \in 0..MaxSlides : QProcess(ok, nslides)
    \/ \E stored \in BOOLEAN : QPutSlide(stored)
    \/ \E stored \in BOOLEAN : QPutManifest(stored)
    \/ QReturn

SpecQueue == InitQueue /\ [][NextQueue]_vars

(* C27 *)

\* the messages the loop is through with
Handled == IF pc = "queue" THEN 1..(queue.i - 1) ELSE {}

\* every slide and the manifest of message k reached output storage
Stored(k) ==
    /\ queue.met[k].rendered
    /\ Len(queue.met[k].put) = queue.met[k].slides
    /\ \A j \in 1..Len(queue.met[k].put) : queue.met[k].put[j]
    /\ queue.met[k].manifest = "stored"

\* each message is settled once, in batch order, and the call returns only
\* when it is through with all of them
SettledOnce ==
    pc = "queue" =>
       /\ \A k \in 1..Len(queue.msgs) :
             Len(queue.met[k].settle) = (IF k \in Handled THEN 1 ELSE 0)
       /\ queue.at = "returned" => Handled = 1..Len(queue.msgs)

\* C27: consumeQueue settles every message of a batch exactly once, with Ack
\* or Retry and never both: Retry when the body cannot be read or decoded or
\* the source cannot be read from input storage; Ack when the key is not a
\* .dsh file, when import expansion or processing fails (bad source is not
\* retried), and after a successful render whose slides and manifest were
\* stored; one message's failure never stops the remaining messages from
\* being handled.
C27_Settle ==
    /\ SettledOnce
    /\ \A k \in Handled :
          LET m == queue.met[k]
          IN  /\ m.settle = <<"Retry">> <=> (m.bodyErr \/ m.decodeErr \/ m.getErr)
              /\ m.settle = <<"Ack">> <=>
                    \/ ~m.bodyErr /\ ~m.decodeErr /\ ~m.dsh
                    \/ m.expandErr
                    \/ m.processErr
                    \/ Stored(k)

\* the part that holds: every message is settled exactly once whatever the
\* others met; a message is retried exactly when its body could not be read
\* or decoded or Get failed on its source, and acknowledged otherwise
C27_SettledOnce ==
    /\ SettledOnce
    /\ \A k \in Handled :
          LET m == queue.met[k]
          IN  m.settle = (IF m.bodyErr \/ m.decodeErr \/ m.getErr
                          THEN <<"Retry">> ELSE <<"Ack">>)


----------------------------------------------------------------------------
(* Server.getOrRenderDeck and its DeckCache                                 *)
(* A rendered deck is known by the number of the render that made it; 0 is  *)
(* no deck (a missing map entry, a nil result).                             *)

MaxCalls == 4

Callers == {1, 2, 3}
Paths == {"a", "b"}

NoCall == [at |-> "idle", path |-> "", cached |-> 0, ok |-> FALSE]

InitCache ==
    /\ deck = NoDeck
    /\ fontmap = NoFonts
    /\ pc = "cache"
    /\ caller = ""
    /\ d = NoDeck
    /\ n = 0
    /\ slide = NoSlide
    /\ li = 1
    /\ ei = 1
    /\ calls = <<>>
    /\ err = ""
    /\ result = NoResult
    /\ pi = 0
    /\ fin = <<>>
    /\ fout = <<>>
    /\ procs = <<>>
    /\ resolver = <<>>
    /\ queue = <<>>
    /\ cache = [decks |-> [p \in Paths |-> 0],
                readers |-> {}, writer |-> 0,
                call |-> [c \in Callers |-> NoCall],
                renders |-> [p \in Paths |-> 0],
                made |-> 0,
                started |-> 0,
                returned |-> {}]

CacheFrame ==
    UNCHANGED <<deck, fontmap, pc, caller, d, n, slide, li, ei, calls, err, result, pi,
                fin, fout, procs, resolver, queue>>

At(c, at) == pc = "cache" /\ cache.call[c].at = at

\* the call of c returns dk (0 with an error)
ReturnOf(dc, c, dk) ==
    [dc EXCEPT !.returned = @ \cup {[caller |-> c, path |-> dc.call[c].path, deck |-> dk]},
               !.call[c] = NoCall]

\* the deferred s.deckCache.mu.Unlock()
Unlocked(dc) == [dc EXCEPT !.writer = 0]

\* a request reaches getOrRenderDeck
Call(c, p) ==
    /\ At(c, "idle")
    /\ cache.started < MaxCalls
    /\ cache' = [cache EXCEPT !.started = @ + 1,
                              !.call[c] = [at |-> "rlock", path |-> p, cached |-> 0,
                                           ok |-> FALSE]]
    /\ CacheFrame

\* line 459: RLock waits while the write lock is held
RLock(c) ==
    /\ At(c, "rlock")
    /\ cache.writer = 0
    /\ cache' = [cache EXCEPT !.readers = @ \cup {c}, !.call[c].at = "lookup"]
    /\ CacheFrame

\* line 460
Lookup(c) ==
    /\ At(c, "lookup")
    /\ cache' = [cache EXCEPT !.call[c].cached = cache.decks[cache.call[c].path],
                              !.call[c].ok = cache.decks[cache.call[c].path] # 0,
                              !.call[c].at = "runlock"]
    /\ CacheFrame

\* lines 461-464
RUnlock(c) ==
    /\ At(c, "runlock")
    /\ cache' = IF cache.call[c].ok
                THEN ReturnOf([cache EXCEPT !.readers = @ \ {c}], c, cache.call[c].cached)
                ELSE [cache EXCEPT !.readers = @ \ {c}, !.call[c].at = "lock"]
    /\ CacheFrame

\* lines 467-468: Lock waits for the readers and the writer to leave
Lock(c) ==
    /\ At(c, "lock")
    /\ cache.writer = 0
    /\ cache.readers = {}
    /\ cache' = [cache EXCEPT !.writer = c, !.call[c].at = "check"]
    /\ CacheFrame

\* the double-check without its lookup: the entry is never found
DoubleChecked_skipped(dc, p) == FALSE

\* line 471: `if cached, ok := s.deckCache.decks[examplePath]; ok`
DoubleChecked(dc, p) == dc.decks[p] # 0

\* lines 470-473
DoubleCheck(c) ==
    /\ At(c, "check")
    /\ cache' = IF DoubleChecked(cache, cache.call[c].path)
                THEN Unlocked(ReturnOf(cache, c, cache.decks[cache.call[c].path]))
                ELSE [cache EXCEPT !.call[c].at = "read"]
    /\ CacheFrame

\* lines 475-480: os.ReadFile
ReadFile(c, found) ==
    /\ At(c, "read")
    /\ cache' = IF found THEN [cache EXCEPT !.call[c].at = "render"]
                ELSE Unlocked(ReturnOf(cache, c, 0))
    /\ CacheFrame

\* lines 482-500: ProcessWithWorkDir, and the store of its result
Render(c, rendered) ==
    /\ At(c, "render")
    /\ cache' =
          IF ~rendered THEN Unlocked(ReturnOf(cache, c, 0))
          ELSE LET p == cache.call[c].path
                   dk == cache.made + 1
               IN  Unlocked(ReturnOf([cache EXCEPT !.decks[p] = dk, !.made = dk,
                                                   !.renders[p] = @ + 1], c, dk))
    /\ CacheFrame

NextCache ==
    \/ \E c \in Callers, p \in Paths : Call(c, p)
    \/ \E c \in Callers : RLock(c)
    \/ \E c \in Callers : Lookup(c)
    \/ \E c \in Callers : RUnlock(c)
    \/ \E c \in Callers : Lock(c)
    \/ \E c \in Callers : DoubleCheck(c)
    \/ \E c \in Callers, found \in BOOLEAN : ReadFile(c, found)
    \/ \E c \in Callers, rendered \in BOOLEAN : Render(c, rendered)

SpecCache == InitCache /\ [][NextCache]_vars

(* C28 *)

\* a path is rendered successfully at most once, and every call that returns
\* a deck for it returns the cached one
RenderedOnce ==
    pc = "cache" =>
       /\ \A p \in Paths : cache.renders[p] <= 1
       /\ \A r \in cache.returned : r.deck # 0 => r.deck = cache.decks[r.path]

\* an entry of the cache changes only from absent to the deck of a successful
\* render, which is counted: nothing is stored otherwise, and no entry is
\* replaced or removed
EntriesKept ==
    pc = "cache" =>
       \A p \in Paths :
          cache'.decks[p] # cache.decks[p] =>
             /\ cache.decks[p] = 0
             /\ cache'.renders[p] = cache.renders[p] + 1
             /\ \E c \in Callers :
                   [caller |-> c, path |-> p, deck |-> cache'.decks[p]] \in cache'.returned

\* C28: for every interleaving of concurrent getOrRenderDeck calls, a given
\* example path is rendered at most once successfully and every later or
\* concurrent caller receives that same cached deck; a failed read or render
\* stores nothing in the cache, and a cached entry is never replaced or removed.
C28_RenderOnce == []RenderedOnce /\ [][EntriesKept]_vars

\* three callers received the one deck of path "a", after a call for "a" had
\* failed; one of them had missed the entry and waited for the write lock
C28_Witness ==
    /\ pc = "cache"
    /\ cache.renders["a"] = 1
    /\ [caller |-> 1, path |-> "a", deck |-> 0] \in cache.returned
    /\ \A c \in Callers :
          [caller |-> c, path |-> "a", deck |-> cache.decks["a"]] \in cache.returned


----------------------------------------------------------------------------
(* C29 *)

\* a call of Expand is running
Expanding == pc \in {"imports", "overflow"} /\ resolver.stack # <<>>

\* the call has returned, with output or with an error
Returned == pc = "imports" /\ resolver.stack = <<>> /\ resolver.ret.done

\* the include line an activation stands at names a file that is being expanded
Cyclic ==
    /\ AtLine
    /\ IsInclude(Top.lines[Top.k])
    /\ resolvePath(Unquote[Top.lines[Top.k][2]], Top.path) \in OnStack

\* C29: Expand terminates, returning either expanded output or an error, for
\* every source and every finite set of loadable files, including file sets in
\* which include statements refer to each other cyclically (a file including
\* itself, or two files including each other).
C29_Terminates == Expanding ~> Returned

\* the part that holds: a call of Expand returns unless an include reaches a
\* file that is being expanded, and only then does it run out of stack
C29_ReturnsUnlessCyclic ==
    /\ Expanding ~> (Returned \/ pc = "overflow")
    /\ [](pc = "overflow" => Cyclic)


----------------------------------------------------------------------------
(* C30 *)

\* the calls that open a group, and the call that closes one
Opening == {"RotateTranslate", "Gstyle"}

\* the group nesting depth after the first k calls
Depth(k) ==
    Cardinality({i \in 1..k : calls[i].op \in Opening})
    - Cardinality({i \in 1..k : calls[i].op = "Gend"})

\* how many of the calls are op
CountOf(op) == Cardinality({i \in 1..Len(calls) : calls[i].op = op})

\* svgslide has returned from drawing a slide
SlideDone == pc \in {"idle", "ploop"} /\ calls # <<>>

\* C30: for every slide record with a valid index, the emitted call sequence
\* is properly bracketed: begin-viewport is the first call and end-viewport the
\* last, each exactly once; every group opened (rotation group of a text run,
\* style group of a block-mode run, style group of a list) is closed before
\* the next entry is drawn, so the group nesting depth is zero between entries
\* and at end-viewport.
C30_Bracketed ==
    calls # <<>> =>
       /\ calls[1].op = "Startview"
       /\ CountOf("Startview") = 1
       /\ \A i \in 1..Len(calls) : calls[i].op = "End" => i = Len(calls)
       /\ SlideDone => calls[Len(calls)].op = "End"
       /\ \A k \in 1..Len(calls) : Depth(k) >= 0
       /\ Depth(Len(calls)) = 0

\* a slide drawn to its end with a rotated block run: its style group lies
\* inside its rotation group
C30_Witness ==
    /\ SlideDone
    /\ calls[Len(calls)].op = "End"
    /\ \E k \in 1..Len(calls) : Depth(k) = 2 /\ calls[k].layer = "text"


====
